---------------------------- MODULE Spec2Model ----------------------------
(***************************************************************************)
(* Model of ipaserver/install/adtrustinstance.py: the ADTRUSTInstance      *)
(* installer.  create_instance registers an ordered list of steps and     *)
(* runs them one at a time; uninstall restores the flags saved in the     *)
(* state store and reverses the side effects.                             *)
(*                                                                         *)
(* The directory, the services, SELinux and the state store are the       *)
(* external state the steps read and write.  `log` is the trace of what   *)
(* the step that ran last (or uninstall) printed and which collaborators  *)
(* it called, in call order; `executed` lists the steps the current run   *)
(* has announced.                                                         *)
(***************************************************************************)
EXTENDS Integers, Sequences, FiniteSets, TLC

VARIABLES
    ranges,              \* ipaDomainIDRange entries of the directory
    s4u_members,         \* memberPrincipal of ipa-cifs-delegation-targets
    smb_dom,             \* the samba domain object (smb_dom_dn)
    admin_sids,          \* ipaNTSecurityIdentifier of admin and admins
    plugins,             \* plugin entries under cn=plugins,cn=config
    ldap_enabled,        \* service startup entries written by ldap_enable
    fb_group,            \* whether the 'Default SMB Group' entry exists
    trust_view,          \* whether the 'Default Trust View' entry exists
    running,             \* is_running() of each system service
    enabled,             \* is_enabled() of each system service
    selinux,             \* value of the samba_portmapper boolean
    smb_conf,            \* whether paths.SMB_CONF exists
    sstore,              \* the sysrestore state store
    rid_base,            \* self.rid_base
    secondary_rid_base,  \* self.secondary_rid_base
    netbios_name,        \* self.netbios_name
    reset_netbios_name,  \* self.reset_netbios_name
    enable_compat,       \* self.enable_compat
    add_sids,            \* self.add_sids
    steps,               \* self.steps: the registered (label, method) pairs
    pc,                  \* index of the next step of start_creation
    phase,               \* idle / running / done / failed / uninstalled
    failed_step,         \* label attached to the reported failure
    error,               \* text of the exception that aborted the run
    executed,            \* labels start_creation announced in this run
    log,                 \* trace of the step that ran last, or of uninstall
    faults,              \* collaborator calls that have failed so far
    runs,                \* number of operations started so far
    arg,                 \* the s handed to check_netbios_name / make_netbios_name
    netbios_ok,          \* what check_netbios_name(s) returned
    host_netbios_name,   \* what make_netbios_name(s) returned (line 152)
    urandom,             \* the 12 bytes os.urandom gave __gen_sid_string
    sid_string,          \* what __gen_sid_string returned for them
    prev_urandom,        \* the bytes of the call before
    prev_sid_string      \* and the string returned for those

vars == <<ranges, s4u_members, smb_dom, admin_sids, plugins, ldap_enabled,
          fb_group, trust_view,
          running, enabled, selinux, smb_conf, sstore, rid_base,
          secondary_rid_base, netbios_name, reset_netbios_name,
          enable_compat, add_sids,
          steps, pc, phase, failed_step, error, executed, log, faults, runs,
          arg, netbios_ok, host_netbios_name,
          urandom, sid_string, prev_urandom, prev_sid_string>>

dirvars == <<ranges, s4u_members, smb_dom, admin_sids, plugins, ldap_enabled,
            fb_group, trust_view>>
sysvars == <<running, enabled, selinux, smb_conf, sstore>>
\* the arguments and results of the module's pure functions
funvars == <<arg, netbios_ok, host_netbios_name,
             urandom, sid_string, prev_urandom, prev_sid_string>>
\* what is fixed before create_instance or uninstall is called
setupvars == <<rid_base, secondary_rid_base, netbios_name,
               reset_netbios_name, enable_compat, add_sids, funvars>>
runvars == <<steps, phase, failed_step, error, runs>>

---------------------------------------------------------------------------
(* Bounds of the model *)

MaxRanges == 2      \* ID range entries the directory may hold
MaxSize == 2        \* largest ipaIDRangeSize
MaxRid == 4         \* largest RID base (requested or already stored)
MaxOps == 2         \* create_instance / uninstall invocations per behaviour
MaxFaults == 1      \* collaborator calls that may fail within one behaviour
MaxSidDraw == 2     \* distinct outcomes of the random SID draw
MaxPrefix == 2      \* characters drawn freely at the head of a name
MaxPad == 16        \* repetitions of one character that follow them
MaxNonZero == 1     \* bytes of a 12-byte draw that are not zero

RangeIds == 1..MaxRanges
Sizes == 1..MaxSize
\* RID bases are positive: the truth test of lines 328-330 on a stored base
\* of 0 depends on how the directory client decodes the attribute.
Rids == 1..MaxRid

---------------------------------------------------------------------------
(* Values *)

NoRid == 0 - 1                 \* attribute not present on the entry
Absent == "None"               \* restore_state found no record
NoSid == << >>                 \* entry has no ipaNTSecurityIdentifier

Services == {"smb", "winbind", "oddjobd"}

\* Python's str() of a bool, as the state file stores it
BoolStr(b) == IF b THEN "True" ELSE "False"

\* Python's truth test of a restored value: None and False are falsy
Truthy(v) == v # Absent /\ v # "False"

Abs(x) == IF x < 0 THEN 0 - x ELSE x

Ev(k, a, b) == [k |-> k, a |-> a, b |-> b]
Msg(text) == Ev("msg", text, "")
Call(target, op) == Ev("call", target, op)

\* whether entry e occurs in the trace
Logged(e) == \E i \in 1..Len(log) : log[i] = e

InSeq(x, sq) == \E i \in 1..Len(sq) : sq[i] = x

Index(x, sq) == CHOOSE i \in 1..Len(sq) : sq[i] = x

\* Python's None where a string is expected.  A string is the sequence of its
\* characters, so no string equals this value.
NoneStr == << Absent >>

---------------------------------------------------------------------------
(* check_netbios_name and make_netbios_name, lines 49 and 88-98 *)

\* string.ascii_lowercase, string.ascii_uppercase, string.digits
ascii_lowercase ==
    << "a", "b", "c", "d", "e", "f", "g", "h", "i", "j", "k", "l",
       "m", "n", "o", "p", "q", "r", "s", "t", "u", "v", "w", "x",
       "y", "z" >>
ascii_uppercase ==
    << "A", "B", "C", "D", "E", "F", "G", "H", "I", "J", "K", "L",
       "M", "N", "O", "P", "Q", "R", "S", "T", "U", "V", "W", "X",
       "Y", "Z" >>
digits ==
    << "0", "1", "2", "3", "4", "5", "6", "7", "8", "9" >>

\* line 49
ALLOWED_NETBIOS_CHARS == ascii_uppercase \o digits

\* c in ALLOWED_NETBIOS_CHARS / c not in ALLOWED_NETBIOS_CHARS
allowed_chars == {ALLOWED_NETBIOS_CHARS[i] : i \in 1..Len(ALLOWED_NETBIOS_CHARS)}
is_allowed(c) == c \in allowed_chars
not_allowed(c) == c \notin allowed_chars

\* str.upper(): a lowercase ASCII letter becomes the uppercase letter at the
\* same place of the alphabet, every other character stays
upper_of ==
    [c \in {ascii_lowercase[i] : i \in 1..Len(ascii_lowercase)} |->
       ascii_uppercase[Index(c, ascii_lowercase)]]
upper(str) ==
    [i \in 1..Len(str) |->
       IF str[i] \in DOMAIN upper_of THEN upper_of[str[i]] ELSE str[i]]

\* str.split('.')[0]: what comes before the first '.', the whole string when
\* it has none
split_first(str) ==
    LET dots == {i \in 1..Len(str) : str[i] = "."} IN
    IF dots = {} THEN str
    ELSE SubSeq(str, 1, (CHOOSE i \in dots : \A j \in dots : i <= j) - 1)

\* the slice str[:n]
slice_to(str, n) == SubSeq(str, 1, IF Len(str) < n THEN Len(str) ELSE n)

\* check_netbios_name accepting names of up to 16 characters
check_netbios_name_16(str) ==
    ~ \/ str = NoneStr \/ str = << >>
      \/ Len(str) > 16
      \/ SelectSeq(str, not_allowed) # << >>

\* check_netbios_name, lines 88-94
check_netbios_name(str) ==
    ~ \/ str = NoneStr \/ str = << >>
      \/ Len(str) > 15
      \/ SelectSeq(str, not_allowed) # << >>

\* make_netbios_name without the slice
make_netbios_name_unsliced(str) ==
    SelectSeq(upper(split_first(str)), is_allowed)

\* make_netbios_name without the call of upper()
make_netbios_name_as_typed(str) ==
    slice_to(SelectSeq(split_first(str), is_allowed), 15)

\* make_netbios_name keeping the '-' of the name as well
make_netbios_name_keeping_dash(str) ==
    LET kept(c) == is_allowed(c) \/ c = "-" IN
    slice_to(SelectSeq(upper(split_first(str)), kept), 15)

\* make_netbios_name, lines 96-98
make_netbios_name(str) ==
    slice_to(SelectSeq(upper(split_first(str)), is_allowed), 15)

---------------------------------------------------------------------------
(* __gen_sid_string, lines 181-183.  An unsigned 32-bit integer is kept as *)
(* its four base-256 digits, most significant first: the values reach      *)
(* 2^32 - 1, beyond the integers the model checker computes with.          *)

\* struct.unpack(">LLL", b): each group of four bytes read most significant
\* byte first
unpack_big_endian(b) ==
    [k \in 1..3 |-> [j \in 1..4 |-> b[4 * (k - 1) + j]]]

\* struct.unpack("<LLL", b): each group of four bytes read least significant
\* byte first
unpack_LLL(b) ==
    [k \in 1..3 |-> [j \in 1..4 |-> b[4 * (k - 1) + 5 - j]]]

is_zero(n) == \A i \in 1..Len(n) : n[i] = 0

\* n divided by 10, by long division from the most significant digit
divmod10(n) ==
    LET rem[i \in 0..Len(n)] ==
            IF i = 0 THEN 0 ELSE (rem[i - 1] * 256 + n[i]) % 10
    IN [ quot |-> [i \in 1..Len(n) |-> (rem[i - 1] * 256 + n[i]) \div 10],
         rem |-> rem[Len(n)] ]

\* the decimal digits of n > 0, none for 0
RECURSIVE decimal(_)
decimal(n) ==
    IF is_zero(n) THEN << >>
    ELSE decimal(divmod10(n).quot) \o << digits[divmod10(n).rem + 1] >>

\* "%d" % n
percent_d(n) == IF is_zero(n) THEN << "0" >> ELSE decimal(n)

\* __gen_sid_string reading the groups most significant byte first
gen_sid_string_big_endian(draw) ==
    LET sub_ids == unpack_big_endian(draw) IN
    << "S", "-", "1", "-", "5", "-", "2", "1", "-" >>
    \o percent_d(sub_ids[1]) \o << "-" >>
    \o percent_d(sub_ids[2]) \o << "-" >>
    \o percent_d(sub_ids[3])

\* __gen_sid_string, lines 181-183: draw is what os.urandom(12) returned
gen_sid_string(draw) ==
    LET sub_ids == unpack_LLL(draw) IN
    << "S", "-", "1", "-", "5", "-", "2", "1", "-" >>
    \o percent_d(sub_ids[1]) \o << "-" >>
    \o percent_d(sub_ids[2]) \o << "-" >>
    \o percent_d(sub_ids[3])

\* the draws of os.urandom(12) the installer runs are made with
urandom_draw(k) == [i \in 1..12 |-> IF i = 1 THEN k ELSE 0]
SidDraws == {urandom_draw(k) : k \in 1..MaxSidDraw}

\* str(uuid.uuid4()), line 421: a random UUID, kept as the random bytes it is
\* made of; the one draw of the step stands for all the random bytes the
\* step reads
uuid4(draw) == draw

---------------------------------------------------------------------------
(* The state store (ipapython.sysrestore.StateFile), reached through       *)
(* Service.backup_state / Service.restore_state and self.sstore            *)

StoreKeys == {"smb.running", "smb.enabled", "smb.samba_portmapper",
              "oddjobd.running", "oddjobd.enabled"}

EmptyStore == [k \in StoreKeys |-> Absent]

\* backup_state: records the value only if the pair has no record yet
Backup(st, key, value) ==
    IF st[key] = Absent THEN [st EXCEPT ![key] = value] ELSE st

\* restore_state: the value it returns (None when there is no record) ...
Restored(st, key) == st[key]
\* restore_state leaving the record in the store
RestoreKeeping(st, key) == st
\* ... and the store it leaves, with the record deleted
Restore(st, key) == [st EXCEPT ![key] = Absent]

---------------------------------------------------------------------------
(* The step list of create_instance *)

SELINUX_BOOLEAN_SETTINGS == [name \in {"samba_portmapper"} |-> "on"]

UPGRADE_ERROR == "Entry does not exist. upgrade from IPA 2.x to 3.x did not went well"

Step(label, method) == [label |-> label, method |-> method]

\* the step list with the Schema Compatibility step registered after the
\* restart of the directory server
StepList_compat_after_restart(compat, sids) ==
    << Step("stopping smbd", "__stop"),
       Step("creating samba domain object", "__create_samba_domain_object"),
       Step("creating samba config registry", "__write_smb_registry"),
       Step("writing samba config file", "__write_smb_conf"),
       Step("adding cifs Kerberos principal", "__setup_principal"),
       Step("adding cifs and host Kerberos principals to the adtrust agents group",
            "__setup_group_membership"),
       Step("check for cifs services defined on other replicas", "__check_replica"),
       Step("adding cifs principal to S4U2Proxy targets", "__add_s4u2proxy_target"),
       Step("adding admin(group) SIDs", "__add_admin_sids"),
       Step("adding RID bases", "__add_rid_bases"),
       Step("updating Kerberos config", "__update_krb5_conf"),
       Step("activating CLDAP plugin", "__add_cldap_module"),
       Step("activating sidgen task", "__add_sidgen_task"),
       Step("configuring smbd to start on boot", "__enable"),
       Step("adding special DNS service records", "__add_dns_service_records") >>
    \o
    << Step("restarting Directory Server to take MS PAC and LDAP plugins changes into account",
            "__restart_dirsrv") >>
    \o (IF compat
        THEN << Step("enabling trusted domains support for older clients via Schema Compatibility plugin",
                     "__enable_compat_tree") >>
        ELSE << >>)
    \o
    <<
       Step("adding fallback group", "__add_fallback_group"),
       Step("adding Default Trust View", "__add_default_trust_view"),
       Step("setting SELinux booleans", "__configure_selinux_for_smbd"),
       Step("enabling oddjobd", "__enable_and_start_oddjobd"),
       Step("starting CIFS services", "__start") >>
    \o (IF sids
        THEN << Step("adding SIDs to existing users and groups", "__add_sids") >>
        ELSE << >>)

\* lines 831-865: the steps in registration order
StepList(compat, sids) ==
    << Step("stopping smbd", "__stop"),
       Step("creating samba domain object", "__create_samba_domain_object"),
       Step("creating samba config registry", "__write_smb_registry"),
       Step("writing samba config file", "__write_smb_conf"),
       Step("adding cifs Kerberos principal", "__setup_principal"),
       Step("adding cifs and host Kerberos principals to the adtrust agents group",
            "__setup_group_membership"),
       Step("check for cifs services defined on other replicas", "__check_replica"),
       Step("adding cifs principal to S4U2Proxy targets", "__add_s4u2proxy_target"),
       Step("adding admin(group) SIDs", "__add_admin_sids"),
       Step("adding RID bases", "__add_rid_bases"),
       Step("updating Kerberos config", "__update_krb5_conf"),
       Step("activating CLDAP plugin", "__add_cldap_module"),
       Step("activating sidgen task", "__add_sidgen_task"),
       Step("configuring smbd to start on boot", "__enable"),
       Step("adding special DNS service records", "__add_dns_service_records") >>
    \o (IF compat
        THEN << Step("enabling trusted domains support for older clients via Schema Compatibility plugin",
                     "__enable_compat_tree") >>
        ELSE << >>)
    \o
    << Step("restarting Directory Server to take MS PAC and LDAP plugins changes into account",
            "__restart_dirsrv"),
       Step("adding fallback group", "__add_fallback_group"),
       Step("adding Default Trust View", "__add_default_trust_view"),
       Step("setting SELinux booleans", "__configure_selinux_for_smbd"),
       Step("enabling oddjobd", "__enable_and_start_oddjobd"),
       Step("starting CIFS services", "__start") >>
    \o (IF sids
        THEN << Step("adding SIDs to existing users and groups", "__add_sids") >>
        ELSE << >>)

---------------------------------------------------------------------------
(* The step orchestrator (Service.step / Service.start_creation) *)

\* the loop of start_creation is at the step registered for method m
AtStep(m) ==
    /\ phase = "running"
    /\ pc <= Len(steps)
    /\ steps[pc].method = m

Announce == Ev("step", steps[pc].label, "")

\* the step's method returned: start_creation goes on to the next step
StepReturns(out) ==
    /\ log' = << Announce >> \o out
    /\ executed' = Append(executed, steps[pc].label)
    /\ pc' = pc + 1
    /\ UNCHANGED runvars

\* start_creation swallowing the exception and going on to the next step
StepRaisesIgnored(out, err) ==
    /\ log' = << Announce >> \o out \o << Ev("raise", err, "") >>
    /\ executed' = Append(executed, steps[pc].label)
    /\ pc' = pc + 1
    /\ UNCHANGED runvars

\* the step's method raised: start_creation stops, the failure carries
\* the label of the step
StepRaises(out, err) ==
    /\ log' = << Announce >> \o out \o << Ev("raise", err, "") >>
    /\ executed' = Append(executed, steps[pc].label)
    /\ phase' = "failed"
    /\ failed_step' = steps[pc].label
    /\ error' = err
    /\ UNCHANGED <<pc, steps, runs>>

\* the responses a collaborator call may give: "ok", or one of the
\* failures in S while the fault budget lasts
Responses(S) == IF faults < MaxFaults THEN {"ok"} \cup S ELSE {"ok"}
Fault(resp) == faults' = IF resp = "ok" THEN faults ELSE faults + 1

\* how a step ends, given the error text its method raised ("" for none)
StepEnds(out, err) ==
    IF err = "" THEN StepReturns(out) ELSE StepRaises(out, err)

\* start_creation printing the end message when one step is still to run
StartCreationDoneEarly ==
    /\ phase = "running"
    /\ pc >= Len(steps)
    /\ phase' = "done"
    /\ log' = << Ev("done", "installation complete", "") >>
    /\ UNCHANGED <<dirvars, sysvars, setupvars, steps, pc, failed_step,
                   error, executed, faults, runs>>

\* end of start_creation: every step has run, the end message is printed
StartCreationDone ==
    /\ phase = "running"
    /\ pc > Len(steps)
    /\ phase' = "done"
    /\ log' = << Ev("done", "installation complete", "") >>
    /\ UNCHANGED <<dirvars, sysvars, setupvars, steps, pc, failed_step,
                   error, executed, faults, runs>>

\* create_instance, lines 827-865: connect and register the steps;
\* line 867 enters start_creation
CreateInstance ==
    /\ phase # "running"
    /\ runs < MaxOps
    /\ runs' = runs + 1
    /\ steps' = StepList(enable_compat, add_sids)
    /\ pc' = 1
    /\ phase' = "running"
    /\ failed_step' = ""
    /\ error' = ""
    /\ log' = << Call("ldap", "connect") >>
    /\ executed' = << >>
    /\ UNCHANGED <<dirvars, sysvars, setupvars, faults>>
---------------------------------------------------------------------------
(* The steps, in registration order.  Each method is an operator from the  *)
(* state it reads and the responses of the collaborators it calls to the   *)
(* state it leaves, what it printed and called (out) and the error it      *)
(* raised (err, "" when it returned).                                      *)

\* __stop writing the record itself instead of calling backup_state
stop_overwrites(run, st, resp) ==
    [ sstore |-> [st EXCEPT !["smb.running"] = BoolStr(run["smb"])],
      running |->
          IF resp = "winbind" THEN run
          ELSE IF resp = "smb" THEN [run EXCEPT !["winbind"] = FALSE]
          ELSE [run EXCEPT !["winbind"] = FALSE, !["smb"] = FALSE],
      out |-> << Ev("backup", "smb.running", BoolStr(run["smb"])),
                 Call("winbind", "stop") >>
              \o (IF resp = "winbind" THEN << >>
                  ELSE << Call("smb", "stop") >>),
      err |-> "" ]

\* __stop stopping the services first and saving the flag afterwards
stop_then_backup(run, st, resp) ==
    LET after == IF resp = "winbind" THEN run
                 ELSE IF resp = "smb" THEN [run EXCEPT !["winbind"] = FALSE]
                 ELSE [run EXCEPT !["winbind"] = FALSE, !["smb"] = FALSE]
    IN
    [ sstore |-> Backup(st, "smb.running", BoolStr(after["smb"])),
      running |-> after,
      out |-> << Call("winbind", "stop") >>
              \o (IF resp = "winbind" THEN << >>
                  ELSE << Call("smb", "stop") >>)
              \o << Ev("backup", "smb.running", BoolStr(after["smb"])) >>,
      err |-> "" ]

\* __stop, lines 721-727
stop(run, st, resp) ==
    [ sstore |-> Backup(st, "smb.running", BoolStr(run["smb"])),
      running |->
          IF resp = "winbind" THEN run
          ELSE IF resp = "smb" THEN [run EXCEPT !["winbind"] = FALSE]
          ELSE [run EXCEPT !["winbind"] = FALSE, !["smb"] = FALSE],
      out |-> << Ev("backup", "smb.running", BoolStr(run["smb"])),
                 Call("winbind", "stop") >>
              \o (IF resp = "winbind" THEN << >>
                  ELSE << Call("smb", "stop") >>),
      err |-> "" ]

Stop ==
    /\ AtStep("__stop")
    /\ \E resp \in Responses({"winbind", "smb"}) :
         LET r == stop(running, sstore, resp) IN
           /\ sstore' = r.sstore
           /\ running' = r.running
           /\ Fault(resp)
           /\ StepEnds(r.out, r.err)
    /\ UNCHANGED <<dirvars, setupvars, enabled, selinux, smb_conf>>

\* __reset_netbios_name, lines 373-384
reset_netbios(dom, nb, resp) ==
    [ dom |-> IF resp = "ok" THEN [dom EXCEPT !.flat = nb] ELSE dom,
      out |-> << Msg("Reset NetBIOS domain name"),
                 Call("ldap", "modify_s " \o "ipaNTFlatName") >>
              \o (IF resp = "ok" THEN << >>
                  ELSE << Msg("Failed to reset the NetBIOS domain name") >>) ]

\* __create_samba_domain_object giving the object a new SID when it resets
\* the NetBIOS name
create_samba_domain_object_new_sid(dom, nb, reset, resp, draw) ==
    IF dom.exists
    THEN IF reset
         THEN LET r == reset_netbios(dom, nb, resp) IN
              [ dom |-> [r.dom EXCEPT !.sid = gen_sid_string(draw)],
                out |-> r.out, err |-> "" ]
         ELSE [ dom |-> dom,
                out |-> << Msg("Samba domain object already exists") >>,
                err |-> "" ]
    ELSE IF resp = "ok"
         THEN [ dom |-> [ exists |-> TRUE, flat |-> nb,
                          sid |-> gen_sid_string(draw), guid |-> uuid4(draw),
                          fallback |-> FALSE ],
                out |-> << Call("ldap", "add_entry") >>,
                err |-> "" ]
         ELSE [ dom |-> dom,
                out |-> << Call("ldap", "add_entry") >>,
                err |-> "add_entry failed" ]

\* __create_samba_domain_object bringing the flat name of an existing object
\* in line with netbios_name whether or not reset_netbios_name is set
create_samba_domain_object_renaming(dom, nb, reset, resp, draw) ==
    IF dom.exists
    THEN IF reset
         THEN LET r == reset_netbios(dom, nb, resp) IN
              [ dom |-> r.dom, out |-> r.out, err |-> "" ]
         ELSE [ dom |-> [dom EXCEPT !.flat = nb],
                out |-> << Msg("Samba domain object already exists") >>,
                err |-> "" ]
    ELSE IF resp = "ok"
         THEN [ dom |-> [ exists |-> TRUE, flat |-> nb,
                          sid |-> gen_sid_string(draw), guid |-> uuid4(draw),
                          fallback |-> FALSE ],
                out |-> << Call("ldap", "add_entry") >>,
                err |-> "" ]
         ELSE [ dom |-> dom,
                out |-> << Call("ldap", "add_entry") >>,
                err |-> "add_entry failed" ]

\* __create_samba_domain_object, lines 386-425
create_samba_domain_object(dom, nb, reset, resp, draw) ==
    IF dom.exists
    THEN IF reset
         THEN LET r == reset_netbios(dom, nb, resp) IN
              [ dom |-> r.dom, out |-> r.out, err |-> "" ]
         ELSE [ dom |-> dom,
                out |-> << Msg("Samba domain object already exists") >>,
                err |-> "" ]
    ELSE IF resp = "ok"
         THEN [ dom |-> [ exists |-> TRUE, flat |-> nb,
                          sid |-> gen_sid_string(draw), guid |-> uuid4(draw),
                          fallback |-> FALSE ],
                out |-> << Call("ldap", "add_entry") >>,
                err |-> "" ]
         ELSE [ dom |-> dom,
                out |-> << Call("ldap", "add_entry") >>,
                err |-> "add_entry failed" ]

CreateSambaDomainObject ==
    /\ AtStep("__create_samba_domain_object")
    /\ \E resp \in Responses(IF smb_dom.exists /\ ~reset_netbios_name
                             THEN {} ELSE {"error"}),
          draw \in IF smb_dom.exists THEN {urandom_draw(0)} ELSE SidDraws :
         LET r == create_samba_domain_object(smb_dom, netbios_name,
                                             reset_netbios_name, resp, draw) IN
           /\ smb_dom' = r.dom
           /\ Fault(resp)
           /\ StepEnds(r.out, r.err)
    /\ UNCHANGED <<ranges, s4u_members, admin_sids, plugins, ldap_enabled,
                   fb_group, trust_view, sysvars, setupvars>>

\* a step whose method touches nothing of the modelled state: it calls one
\* collaborator and lets that call's exception escape
plain_step(what, resp) ==
    [ out |-> << Call(what, "run") >>,
      err |-> IF resp = "ok" THEN "" ELSE what \o " failed" ]

\* __write_smb_registry, lines 494-506
WriteSmbRegistry ==
    /\ AtStep("__write_smb_registry")
    /\ \E resp \in Responses({"error"}) :
         LET r == plain_step("net conf import", resp) IN
           /\ Fault(resp)
           /\ StepEnds(r.out, r.err)
    /\ UNCHANGED <<dirvars, sysvars, setupvars>>

\* __write_smb_conf, lines 427-433
WriteSmbConf ==
    /\ AtStep("__write_smb_conf")
    /\ \E resp \in Responses({"error"}) :
         LET r == plain_step("open smb.conf", resp) IN
           /\ smb_conf' = (smb_conf \/ resp = "ok")
           /\ Fault(resp)
           /\ StepEnds(r.out, r.err)
    /\ UNCHANGED <<dirvars, setupvars, running, enabled, selinux, sstore>>

\* __setup_principal, lines 515-534: every failure is caught
SetupPrincipal ==
    /\ AtStep("__setup_principal")
    /\ StepEnds(<< Call("service_add", "run"), Call("ipa-getkeytab", "run") >>, "")
    /\ UNCHANGED <<dirvars, sysvars, setupvars, faults>>

\* __setup_group_membership, lines 508-513
SetupGroupMembership ==
    /\ AtStep("__setup_group_membership")
    /\ \E resp \in Responses({"error"}) :
         LET r == plain_step("add_principals_to_group", resp) IN
           /\ Fault(resp)
           /\ StepEnds(r.out, r.err)
    /\ UNCHANGED <<dirvars, sysvars, setupvars>>

\* __check_replica, lines 675-695: every failure is caught
CheckReplica ==
    /\ AtStep("__check_replica")
    /\ StepEnds(<< Call("ldap", "get_entries cifs services") >>, "")
    /\ UNCHANGED <<dirvars, sysvars, setupvars, faults>>

cifs_principal == "cifs/host@REALM"

\* __add_s4u2proxy_target appending the principal without looking for it
add_s4u2proxy_target_unchecked(tg, resp) ==
    IF ~tg.exists
    THEN [ tg |-> tg, out |-> << Msg(UPGRADE_ERROR) >>, err |-> "" ]
    ELSE IF resp = "ok"
         THEN [ tg |-> [tg EXCEPT !.members = @ \o << cifs_principal >>],
                out |-> << Call("ldap", "update_entry") >>,
                err |-> "" ]
         ELSE [ tg |-> tg,
                out |-> << Call("ldap", "update_entry") >>,
                err |-> "update_entry failed" ]

\* __add_s4u2proxy_target, lines 476-492
add_s4u2proxy_target(tg, resp) ==
    IF ~tg.exists
    THEN [ tg |-> tg, out |-> << Msg(UPGRADE_ERROR) >>, err |-> "" ]
    ELSE IF ~InSeq(cifs_principal, tg.members)
         THEN IF resp = "ok"
              THEN [ tg |-> [tg EXCEPT !.members = @ \o << cifs_principal >>],
                     out |-> << Call("ldap", "update_entry") >>,
                     err |-> "" ]
              ELSE [ tg |-> tg,
                     out |-> << Call("ldap", "update_entry") >>,
                     err |-> "update_entry failed" ]
         ELSE [ tg |-> tg,
                out |-> << Msg("cifs principal already targeted, nothing to do.") >>,
                err |-> "" ]

AddS4u2proxyTarget ==
    /\ AtStep("__add_s4u2proxy_target")
    /\ \E resp \in Responses(IF s4u_members.exists
                                /\ ~InSeq(cifs_principal, s4u_members.members)
                             THEN {"error"} ELSE {}) :
         LET r == add_s4u2proxy_target(s4u_members, resp) IN
           /\ s4u_members' = r.tg
           /\ Fault(resp)
           /\ StepEnds(r.out, r.err)
    /\ UNCHANGED <<ranges, smb_dom, admin_sids, plugins, ldap_enabled,
                   fb_group, trust_view, sysvars, setupvars>>

RID_ADMIN == 500
RID_ADMINS == 512

\* the SID of entry e after lines 223-231 / 233-241
admin_sid_after(e, dom_sid, rid, failing) ==
    IF e.dom # NoSid \/ failing THEN e
    ELSE [e EXCEPT !.dom = dom_sid, !.rid = rid]

\* __add_admin_sids returning when the write to the admin user fails
add_admin_sids_giving_up(dom, sids, resp) ==
    IF ~dom.exists
    THEN [ sids |-> sids, out |-> << Msg("Samba domain object not found") >> ]
    ELSE IF dom.sid = NoSid
    THEN [ sids |-> sids,
           out |-> << Msg("Samba domain object does not have a SID") >> ]
    ELSE IF ~sids["admin"].exists
    THEN [ sids |-> sids, out |-> << Msg("IPA admin object not found") >> ]
    ELSE IF ~sids["admins"].exists
    THEN [ sids |-> sids, out |-> << Msg("IPA admin group object not found") >> ]
    ELSE
      [ sids |->
          [ admin |-> admin_sid_after(sids["admin"], dom.sid, RID_ADMIN,
                                      resp = "admin"),
            admins |-> admin_sid_after(sids["admins"], dom.sid, RID_ADMINS,
                                       resp \in {"admin", "admins"}) ],
        out |->
          (IF sids["admin"].dom # NoSid
           THEN << Msg("Admin SID already set, nothing to do") >>
           ELSE << Call("ldap", "modify_s admin") >>
                \o (IF resp = "admin"
                    THEN << Msg("Failed to modify IPA admin object") >>
                    ELSE << >>))
          \o
          (IF resp = "admin" THEN << >>
           ELSE IF sids["admins"].dom # NoSid
           THEN << Msg("Admin group SID already set, nothing to do") >>
           ELSE << Call("ldap", "modify_s admins") >>
                \o (IF resp = "admins"
                    THEN << Msg("Failed to modify IPA admin group object") >>
                    ELSE << >>)) ]

\* __add_admin_sids, lines 185-241
add_admin_sids(dom, sids, resp) ==
    IF ~dom.exists
    THEN [ sids |-> sids, out |-> << Msg("Samba domain object not found") >> ]
    ELSE IF dom.sid = NoSid
    THEN [ sids |-> sids,
           out |-> << Msg("Samba domain object does not have a SID") >> ]
    ELSE IF ~sids["admin"].exists
    THEN [ sids |-> sids, out |-> << Msg("IPA admin object not found") >> ]
    ELSE IF ~sids["admins"].exists
    THEN [ sids |-> sids, out |-> << Msg("IPA admin group object not found") >> ]
    ELSE
      [ sids |->
          [ admin |-> admin_sid_after(sids["admin"], dom.sid, RID_ADMIN,
                                      resp = "admin"),
            admins |-> admin_sid_after(sids["admins"], dom.sid, RID_ADMINS,
                                       resp = "admins") ],
        out |->
          (IF sids["admin"].dom # NoSid
           THEN << Msg("Admin SID already set, nothing to do") >>
           ELSE << Call("ldap", "modify_s admin") >>
                \o (IF resp = "admin"
                    THEN << Msg("Failed to modify IPA admin object") >>
                    ELSE << >>))
          \o
          (IF sids["admins"].dom # NoSid
           THEN << Msg("Admin group SID already set, nothing to do") >>
           ELSE << Call("ldap", "modify_s admins") >>
                \o (IF resp = "admins"
                    THEN << Msg("Failed to modify IPA admin group object") >>
                    ELSE << >>)) ]

AddAdminSids ==
    /\ AtStep("__add_admin_sids")
    /\ \E resp \in Responses(
             IF smb_dom.exists /\ smb_dom.sid # NoSid
                /\ admin_sids["admin"].exists /\ admin_sids["admins"].exists
             THEN {e \in {"admin", "admins"} : admin_sids[e].dom = NoSid}
             ELSE {}) :
         LET r == add_admin_sids(smb_dom, admin_sids, resp) IN
           /\ admin_sids' = r.sids
           /\ Fault(resp)
           /\ StepEnds(r.out, "")
    /\ UNCHANGED <<ranges, s4u_members, smb_dom, plugins, ldap_enabled,
                   fb_group, trust_view, sysvars, setupvars>>

\* no_rid_base_set with all() in place of any(): a range counts as lacking
\* its bases until both are set
no_rid_base_set_all(r) == ~(r.base # NoRid /\ r.sec # NoRid)

\* no_rid_base_set looking at ipaBaseRID only
no_rid_base_set_primary_only(r) == ~(r.base # NoRid)

\* lines 328-330: neither ipaBaseRID nor ipaSecondaryBaseRID is set
no_rid_base_set(r) == ~(r.base # NoRid \/ r.sec # NoRid)

\* admin_conn.get_entries of lines 323-325: the range entries found, an
\* empty list when there is none
get_entries(rs) == {i \in DOMAIN rs : rs[i].present}

\* line 332
ranges_with_no_rid_base(rs) ==
    {i \in get_entries(rs) : no_rid_base_set(rs[i])}

\* too_many_ranges letting two candidates through
too_many_ranges_gt2(n) == n > 2

\* lines 339-343: the number of candidate ranges the step refuses
too_many_ranges(n) == n # 1

\* lines 345-352: the separation test as the code makes it
too_close(rb, srb, size) == Abs(rb - srb) > size

\* __add_rid_bases reporting a rejected write as bases too close
add_rid_bases_one_error(rs, rb, srb, resp) ==
    LET cands == ranges_with_no_rid_base(rs) IN
    IF Cardinality(cands) = 0
    THEN [ ranges |-> rs,
           out |-> << Msg("RID bases already set, nothing to do") >>,
           err |-> "" ]
    ELSE IF too_many_ranges(Cardinality(cands))
    THEN [ ranges |-> rs,
           out |-> << Msg("Found more than one local domain ID range with no RID base set.") >>,
           err |-> "Too many ID ranges\n" ]
    ELSE LET local_range == CHOOSE i \in cands : TRUE
             size == rs[local_range].size
         IN
         IF too_close(rb, srb, size)
         THEN [ ranges |-> rs,
                out |-> << Msg("Primary and secondary RID base are too close.") >>,
                err |-> "RID bases too close.\n" ]
         ELSE IF resp = "ok"
         THEN [ ranges |-> [rs EXCEPT ![local_range].base = rb,
                                      ![local_range].sec = srb],
                out |-> << Call("ldap", "modify_s range") >>,
                err |-> "" ]
         ELSE IF resp = "constraint"
         THEN [ ranges |-> rs,
                out |-> << Call("ldap", "modify_s range"),
                           Msg("Failed to add RID bases to the local range object") >>,
                err |-> "RID bases too close.\n" ]
         ELSE [ ranges |-> rs,
                out |-> << Call("ldap", "modify_s range"),
                           Msg("ID range of the local domain not found, define it and run again.") >>,
                err |-> "NotFound" ]

\* __add_rid_bases, lines 314-371
add_rid_bases(rs, rb, srb, resp) ==
    LET cands == ranges_with_no_rid_base(rs) IN
    IF Cardinality(cands) = 0
    THEN [ ranges |-> rs,
           out |-> << Msg("RID bases already set, nothing to do") >>,
           err |-> "" ]
    ELSE IF too_many_ranges(Cardinality(cands))
    THEN [ ranges |-> rs,
           out |-> << Msg("Found more than one local domain ID range with no RID base set.") >>,
           err |-> "Too many ID ranges\n" ]
    ELSE LET local_range == CHOOSE i \in cands : TRUE
             size == rs[local_range].size
         IN
         IF too_close(rb, srb, size)
         THEN [ ranges |-> rs,
                out |-> << Msg("Primary and secondary RID base are too close.") >>,
                err |-> "RID bases too close.\n" ]
         ELSE IF resp = "ok"
         THEN [ ranges |-> [rs EXCEPT ![local_range].base = rb,
                                      ![local_range].sec = srb],
                out |-> << Call("ldap", "modify_s range") >>,
                err |-> "" ]
         ELSE IF resp = "constraint"
         THEN [ ranges |-> rs,
                out |-> << Call("ldap", "modify_s range"),
                           Msg("Failed to add RID bases to the local range object") >>,
                err |-> "Constraint violation.\n" ]
         ELSE [ ranges |-> rs,
                out |-> << Call("ldap", "modify_s range"),
                           Msg("ID range of the local domain not found, define it and run again.") >>,
                err |-> "NotFound" ]

\* whether __add_rid_bases gets as far as the modify_s of line 358
ReachesModify(rs, rb, srb) ==
    /\ ranges_with_no_rid_base(rs) # {}
    /\ ~too_many_ranges(Cardinality(ranges_with_no_rid_base(rs)))
    /\ \A i \in ranges_with_no_rid_base(rs) : ~too_close(rb, srb, rs[i].size)

AddRidBases ==
    /\ AtStep("__add_rid_bases")
    /\ \E resp \in Responses(IF ReachesModify(ranges, rid_base, secondary_rid_base)
                             THEN {"constraint", "notfound"} ELSE {}) :
         LET r == add_rid_bases(ranges, rid_base, secondary_rid_base, resp) IN
           /\ ranges' = r.ranges
           /\ Fault(resp)
           /\ StepEnds(r.out, r.err)
    /\ UNCHANGED <<s4u_members, smb_dom, admin_sids, plugins, ldap_enabled,
                   fb_group, trust_view, sysvars, setupvars>>

\* __update_krb5_conf, lines 651-673 (and __mod_krb5_conf, 620-649)
UpdateKrb5Conf ==
    /\ AtStep("__update_krb5_conf")
    /\ \E resp \in Responses({"error"}) :
         LET r == plain_step("changeConf krb5.conf", resp) IN
           /\ Fault(resp)
           /\ StepEnds(r.out, r.err)
    /\ UNCHANGED <<dirvars, sysvars, setupvars>>

\* __add_plugin_conf letting the exception of _ldap_mod escape
add_plugin_conf_raising(pl, name, plugin_cn, resp) ==
    IF plugin_cn \in pl
    THEN [ plugins |-> pl, err |-> "",
           out |-> << Msg(name \o " plugin already configured, nothing to do") >> ]
    ELSE [ plugins |-> IF resp = "ok" THEN pl \cup {plugin_cn} ELSE pl,
           err |-> IF resp = "ok" THEN "" ELSE "_ldap_mod failed",
           out |-> << Call("_ldap_mod", plugin_cn) >> ]

\* __add_plugin_conf, lines 435-449: the exception of _ldap_mod is dropped
add_plugin_conf(pl, name, plugin_cn, resp) ==
    IF plugin_cn \in pl
    THEN [ plugins |-> pl, err |-> "",
           out |-> << Msg(name \o " plugin already configured, nothing to do") >> ]
    ELSE [ plugins |-> IF resp = "ok" THEN pl \cup {plugin_cn} ELSE pl,
           err |-> "",
           out |-> << Call("_ldap_mod", plugin_cn) >> ]

AddPluginConf(method, name, plugin_cn) ==
    /\ AtStep(method)
    /\ \E resp \in Responses(IF plugin_cn \in plugins THEN {} ELSE {"error"}) :
         LET r == add_plugin_conf(plugins, name, plugin_cn, resp) IN
           /\ plugins' = r.plugins
           /\ Fault(resp)
           /\ StepEnds(r.out, r.err)
    /\ UNCHANGED <<ranges, s4u_members, smb_dom, admin_sids, ldap_enabled,
                   fb_group, trust_view, sysvars, setupvars>>

\* __add_cldap_module, lines 451-456
AddCldapModule == AddPluginConf("__add_cldap_module", "CLDAP", "ipa_cldap")

\* __add_sidgen_task, lines 458-464
AddSidgenTask ==
    AddPluginConf("__add_sidgen_task", "Sidgen task", "ipa-sidgen-task")

\* __enable, lines 735-752: resp names the ldap_enable call that raises an
\* error other than "already exists"
enable(en, st, le, resp) ==
    [ sstore |-> Backup(st, "smb.enabled", BoolStr(en["smb"])),
      ldap_enabled |->
          IF resp = "ADTRUST" THEN le
          ELSE IF resp = "EXTID" THEN le \cup {"ADTRUST"}
          ELSE le \cup {"ADTRUST", "EXTID"},
      out |-> << Ev("backup", "smb.enabled", BoolStr(en["smb"])),
                 Call("ldap_enable", "ADTRUST") >>
              \o (IF "ADTRUST" \in le /\ resp # "ADTRUST"
                  THEN << Msg("ADTRUST Service startup entry already exists.") >>
                  ELSE << >>)
              \o (IF resp = "ADTRUST" THEN << >>
                  ELSE << Call("ldap_enable", "EXTID") >>)
              \o (IF "EXTID" \in le /\ resp = "ok"
                  THEN << Msg("EXTID Service startup entry already exists.") >>
                  ELSE << >>),
      err |-> IF resp = "ok" THEN "" ELSE "ldap_enable failed" ]

Enable ==
    /\ AtStep("__enable")
    /\ \E resp \in Responses({"ADTRUST", "EXTID"}) :
         LET r == enable(enabled, sstore, ldap_enabled, resp) IN
           /\ sstore' = r.sstore
           /\ ldap_enabled' = r.ldap_enabled
           /\ Fault(resp)
           /\ StepEnds(r.out, r.err)
    /\ UNCHANGED <<ranges, s4u_members, smb_dom, admin_sids, plugins,
                   fb_group, trust_view, setupvars, running, enabled,
                   selinux, smb_conf>>

\* __add_dns_service_records, lines 549-611
AddDnsServiceRecords ==
    /\ AtStep("__add_dns_service_records")
    /\ \E resp \in Responses({"error"}) :
         LET r == plain_step("dns records", resp) IN
           /\ Fault(resp)
           /\ StepEnds(r.out, r.err)
    /\ UNCHANGED <<dirvars, sysvars, setupvars>>

\* __enable_compat_tree, lines 697-709: every failure is caught
EnableCompatTree ==
    /\ AtStep("__enable_compat_tree")
    /\ StepEnds(<< Call("ldap", "update_entry compat") >>, "")
    /\ UNCHANGED <<dirvars, sysvars, setupvars, faults>>

\* __restart_dirsrv, lines 729-733: every failure is caught
RestartDirsrv ==
    /\ AtStep("__restart_dirsrv")
    /\ StepEnds(<< Call("dirsrv", "restart") >>, "")
    /\ UNCHANGED <<dirvars, sysvars, setupvars, faults>>

\* __add_fallback_group reading the domain object on the connection the
\* restart closed, and reconnecting after it
add_fallback_group_read_first(dom, fb, resp) ==
    LET connect == << Call("ldap", "get_entry smb_dom_dn"),
                       Call("ldap", "connect") >> IN
    IF ~dom.exists
    THEN [ dom |-> dom, fb |-> fb, err |-> "",
           out |-> connect \o << Msg("Samba domain object not found") >> ]
    ELSE IF dom.fallback
    THEN [ dom |-> dom, fb |-> fb, err |-> "",
           out |-> connect \o << Msg("Fallback group already set, nothing to do") >> ]
    ELSE IF ~fb /\ resp = "raise"
    THEN [ dom |-> dom, fb |-> fb, err |-> "_ldap_mod failed",
           out |-> connect \o << Call("_ldap_mod", "default-smb-group.ldif"),
                                 Msg("Failed to add fallback group.") >> ]
    ELSE IF ~fb /\ resp = "silent"
    THEN [ dom |-> dom, fb |-> fb, err |-> "",
           out |-> connect \o << Call("_ldap_mod", "default-smb-group.ldif"),
                                 Msg("Failed to add fallback group.") >> ]
    ELSE [ dom |-> IF resp = "modify" THEN dom ELSE [dom EXCEPT !.fallback = TRUE],
           fb |-> TRUE, err |-> "",
           out |-> connect
                   \o (IF fb THEN << >>
                       ELSE << Call("_ldap_mod", "default-smb-group.ldif") >>)
                   \o << Call("ldap", "modify_s fallback group") >>
                   \o (IF resp = "modify"
                       THEN << Msg("Failed to add fallback group to domain object") >>
                       ELSE << >>) ]

\* __add_fallback_group, lines 265-312.  resp: "raise" - _ldap_mod raises;
\* "silent" - _ldap_mod returns without having added the group;
\* "modify" - the modify_s of the domain object fails
add_fallback_group(dom, fb, resp) ==
    LET connect == << Call("ldap", "connect"),
                       Call("ldap", "get_entry smb_dom_dn") >> IN
    IF ~dom.exists
    THEN [ dom |-> dom, fb |-> fb, err |-> "",
           out |-> connect \o << Msg("Samba domain object not found") >> ]
    ELSE IF dom.fallback
    THEN [ dom |-> dom, fb |-> fb, err |-> "",
           out |-> connect \o << Msg("Fallback group already set, nothing to do") >> ]
    ELSE IF ~fb /\ resp = "raise"
    THEN [ dom |-> dom, fb |-> fb, err |-> "_ldap_mod failed",
           out |-> connect \o << Call("_ldap_mod", "default-smb-group.ldif"),
                                 Msg("Failed to add fallback group.") >> ]
    ELSE IF ~fb /\ resp = "silent"
    THEN [ dom |-> dom, fb |-> fb, err |-> "",
           out |-> connect \o << Call("_ldap_mod", "default-smb-group.ldif"),
                                 Msg("Failed to add fallback group.") >> ]
    ELSE [ dom |-> IF resp = "modify" THEN dom ELSE [dom EXCEPT !.fallback = TRUE],
           fb |-> TRUE, err |-> "",
           out |-> connect
                   \o (IF fb THEN << >>
                       ELSE << Call("_ldap_mod", "default-smb-group.ldif") >>)
                   \o << Call("ldap", "modify_s fallback group") >>
                   \o (IF resp = "modify"
                       THEN << Msg("Failed to add fallback group to domain object") >>
                       ELSE << >>) ]

AddFallbackGroup ==
    /\ AtStep("__add_fallback_group")
    /\ \E resp \in Responses(IF ~smb_dom.exists \/ smb_dom.fallback THEN {}
                             ELSE IF fb_group THEN {"modify"}
                             ELSE {"raise", "silent", "modify"}) :
         LET r == add_fallback_group(smb_dom, fb_group, resp) IN
           /\ smb_dom' = r.dom
           /\ fb_group' = r.fb
           /\ Fault(resp)
           /\ StepEnds(r.out, r.err)
    /\ UNCHANGED <<ranges, s4u_members, admin_sids, plugins, ldap_enabled,
                   trust_view, sysvars, setupvars>>

\* __add_default_trust_view, lines 243-263
add_default_trust_view(tv, resp) ==
    IF tv
    THEN [ tv |-> tv, err |-> "",
           out |-> << Msg("Default Trust View already exists.") >> ]
    ELSE IF resp = "raise"
    THEN [ tv |-> tv, err |-> "_ldap_mod failed",
           out |-> << Call("_ldap_mod", "default-trust-view.ldif"),
                      Msg("Failed to add default trust view.") >> ]
    ELSE IF resp = "silent"
    THEN [ tv |-> tv, err |-> "",
           out |-> << Call("_ldap_mod", "default-trust-view.ldif"),
                      Msg("Failed to add Default Trust View.") >> ]
    ELSE [ tv |-> TRUE, err |-> "",
           out |-> << Call("_ldap_mod", "default-trust-view.ldif") >> ]

AddDefaultTrustView ==
    /\ AtStep("__add_default_trust_view")
    /\ \E resp \in Responses(IF trust_view THEN {} ELSE {"raise", "silent"}) :
         LET r == add_default_trust_view(trust_view, resp) IN
           /\ trust_view' = r.tv
           /\ Fault(resp)
           /\ StepEnds(r.out, r.err)
    /\ UNCHANGED <<ranges, s4u_members, smb_dom, admin_sids, plugins,
                   ldap_enabled, fb_group, sysvars, setupvars>>

\* tasks.set_selinux_booleans(required_settings, backup_func): a setting
\* whose required value is None is skipped; otherwise it reads the current
\* value, hands it to backup_func if one is given, then sets the boolean if
\* it differs.  resp: "getsebool" - the read fails; "setsebool" - the write
\* fails
set_selinux_booleans(sel, st, required, backup, resp) ==
    IF required = Absent
    THEN [ selinux |-> sel, sstore |-> st, failed |-> FALSE, out |-> << >> ]
    ELSE IF resp = "getsebool"
    THEN [ selinux |-> sel, sstore |-> st, failed |-> TRUE,
           out |-> << Call("getsebool", "samba_portmapper") >> ]
    ELSE [ selinux |-> IF resp = "setsebool" THEN sel ELSE required,
           sstore |-> IF backup THEN Backup(st, "smb.samba_portmapper", sel)
                      ELSE st,
           failed |-> (resp = "setsebool" /\ sel # required),
           out |-> << Call("getsebool", "samba_portmapper") >>
                   \o (IF backup
                       THEN << Ev("backup", "smb.samba_portmapper", sel) >>
                       ELSE << >>)
                   \o (IF sel # required
                       THEN << Call("setsebool", "samba_portmapper") >>
                       ELSE << >>) ]

\* __configure_selinux_for_smbd, lines 613-618
configure_selinux_for_smbd(sel, st, resp) ==
    LET r == set_selinux_booleans(sel, st,
                                  SELINUX_BOOLEAN_SETTINGS["samba_portmapper"],
                                  TRUE, resp) IN
    [ selinux |-> r.selinux, sstore |-> r.sstore,
      out |-> r.out \o (IF r.failed
                        THEN << Msg("WARNING: could not set SELinux booleans for adtrust service") >>
                        ELSE << >>) ]

ConfigureSelinuxForSmbd ==
    /\ AtStep("__configure_selinux_for_smbd")
    /\ \E resp \in Responses(
             IF selinux # SELINUX_BOOLEAN_SETTINGS["samba_portmapper"]
             THEN {"getsebool", "setsebool"} ELSE {"getsebool"}) :
         LET r == configure_selinux_for_smbd(selinux, sstore, resp) IN
           /\ selinux' = r.selinux
           /\ sstore' = r.sstore
           /\ Fault(resp)
           /\ StepEnds(r.out, "")
    /\ UNCHANGED <<dirvars, setupvars, running, enabled, smb_conf>>

\* installutils.enable_and_start_oddjobd(sstore): backs up the running and
\* enabled flags of oddjobd, then enables and starts it; failures are caught
enable_and_start_oddjobd(run, en, st, resp) ==
    [ sstore |-> Backup(Backup(st, "oddjobd.running", BoolStr(run["oddjobd"])),
                        "oddjobd.enabled", BoolStr(en["oddjobd"])),
      enabled |-> IF resp = "enable" THEN en
                  ELSE [en EXCEPT !["oddjobd"] = TRUE],
      running |-> IF resp = "ok" THEN [run EXCEPT !["oddjobd"] = TRUE]
                  ELSE run,
      out |-> << Ev("backup", "oddjobd.running", BoolStr(run["oddjobd"])),
                 Ev("backup", "oddjobd.enabled", BoolStr(en["oddjobd"])),
                 Call("oddjobd", "enable") >>
              \o (IF resp = "enable" THEN << >>
                  ELSE << Call("oddjobd", "start") >>)
              \o (IF resp = "ok" THEN << >>
                  ELSE << Msg("Unable to start oddjobd") >>) ]

\* __enable_and_start_oddjobd, lines 711-712
EnableAndStartOddjobd ==
    /\ AtStep("__enable_and_start_oddjobd")
    /\ \E resp \in Responses({"enable", "start"}) :
         LET r == enable_and_start_oddjobd(running, enabled, sstore, resp) IN
           /\ sstore' = r.sstore
           /\ enabled' = r.enabled
           /\ running' = r.running
           /\ Fault(resp)
           /\ StepEnds(r.out, "")
    /\ UNCHANGED <<dirvars, setupvars, selinux, smb_conf>>

\* __start, lines 714-719
start(run, resp) ==
    [ running |->
          IF resp = "smb" THEN run
          ELSE IF resp = "winbind" THEN [run EXCEPT !["smb"] = TRUE]
          ELSE [run EXCEPT !["smb"] = TRUE, !["winbind"] = TRUE],
      out |-> << Call("smb", "start") >>
              \o (IF resp = "smb" THEN << >>
                  ELSE << Call("winbind", "start") >>)
              \o (IF resp = "ok" THEN << >>
                  ELSE << Msg("CIFS services failed to start") >>) ]

Start ==
    /\ AtStep("__start")
    /\ \E resp \in Responses({"smb", "winbind"}) :
         LET r == start(running, resp) IN
           /\ running' = r.running
           /\ Fault(resp)
           /\ StepEnds(r.out, "")
    /\ UNCHANGED <<dirvars, setupvars, enabled, selinux, smb_conf, sstore>>

\* __add_sids, lines 466-474: a failure of the task is dropped
AddSids ==
    /\ AtStep("__add_sids")
    /\ \E resp \in Responses({"error"}) :
         /\ Fault(resp)
         /\ StepEnds(<< Call("_ldap_mod", "ipa-sidgen-task-run.ldif") >>, "")
    /\ UNCHANGED <<dirvars, sysvars, setupvars>>

---------------------------------------------------------------------------
(* uninstall, lines 869-928 *)

\* lines 881-887: the four calls of the one try block, in order; the call
\* named by resp raises and the calls after it are not made
smb_calls == << "smb.stop", "smb.disable", "winbind.stop", "winbind.disable" >>

calls_made(resp) ==
    IF InSeq(resp, smb_calls) THEN Index(resp, smb_calls) ELSE Len(smb_calls)

calls_done(resp) ==
    IF InSeq(resp, smb_calls) THEN Index(resp, smb_calls) - 1
    ELSE Len(smb_calls)

\* uninstall applying the saved SELinux boolean without taking its record
\* out of the store
uninstall_without_boolean_restore(run, en, sel, st, resp) ==
    LET \* lines 875-876
        st2 == Restore(Restore(st, "smb.running"), "smb.enabled")
        out2 == << Ev("restore", "smb.running", Restored(st, "smb.running")),
                   Ev("restore", "smb.enabled", Restored(st, "smb.enabled")) >>
        \* lines 878-887
        made == calls_made(resp)
        done == calls_done(resp)
        run3 == [run EXCEPT !["smb"] = IF done >= 1 THEN FALSE ELSE @,
                            !["winbind"] = IF done >= 3 THEN FALSE ELSE @]
        en3 == [en EXCEPT !["smb"] = IF done >= 2 THEN FALSE ELSE @,
                          !["winbind"] = IF done >= 4 THEN FALSE ELSE @]
        out3 == [i \in 1..made |-> Call(smb_calls[i], "")]
        \* lines 889-896
        was_running == Restored(st2, "oddjobd.running")
        st4 == Restore(st2, "oddjobd.running")
        stops == ~Truthy(was_running)
        run4 == IF stops /\ resp # "oddjobd.stop"
                THEN [run3 EXCEPT !["oddjobd"] = FALSE] ELSE run3
        out4 == << Ev("restore", "oddjobd.running", was_running) >>
                \o (IF stops THEN << Call("oddjobd.stop", "") >> ELSE << >>)
        \* lines 898-902
        was_enabled == Restored(st4, "oddjobd.enabled")
        st5 == Restore(st4, "oddjobd.enabled")
        disables == ~Truthy(was_enabled)
        en5 == IF disables /\ resp # "oddjobd.disable"
               THEN [en3 EXCEPT !["oddjobd"] = FALSE] ELSE en3
        out5 == << Ev("restore", "oddjobd.enabled", was_enabled) >>
                \o (IF disables THEN << Call("oddjobd.disable", "") >> ELSE << >>)
        \* lines 907-913
        was_boolean == Restored(st5, "smb.samba_portmapper")
        st6 == st5
        r6 == set_selinux_booleans(sel, st6, was_boolean, FALSE, resp)
        out6 == << Ev("restore", "smb.samba_portmapper", was_boolean) >>
                \o r6.out
                \o (IF r6.failed THEN << Msg("WARNING: SetseboolError") >>
                    ELSE << >>)
        \* lines 915-926
        out7 == << Call("remove_file", "krb5cc_samba"),
                   Call("remove_file", "smb.conf"),
                   Call("listdir", "samba dir") >>
                \o (IF resp = "listdir" THEN << >>
                    ELSE << Call("remove_file", "tdb files") >>)
    IN
    [ running |-> run4, enabled |-> en5, selinux |-> r6.selinux,
      sstore |-> r6.sstore, smb_conf |-> FALSE,
      out |-> out2 \o out3 \o out4 \o out5 \o out6 \o out7,
      err |-> IF resp = "listdir" THEN "listdir failed" ELSE "" ]

\* uninstall, lines 869-928
uninstall(run, en, sel, st, resp) ==
    LET \* lines 875-876
        st2 == Restore(Restore(st, "smb.running"), "smb.enabled")
        out2 == << Ev("restore", "smb.running", Restored(st, "smb.running")),
                   Ev("restore", "smb.enabled", Restored(st, "smb.enabled")) >>
        \* lines 878-887
        made == calls_made(resp)
        done == calls_done(resp)
        run3 == [run EXCEPT !["smb"] = IF done >= 1 THEN FALSE ELSE @,
                            !["winbind"] = IF done >= 3 THEN FALSE ELSE @]
        en3 == [en EXCEPT !["smb"] = IF done >= 2 THEN FALSE ELSE @,
                          !["winbind"] = IF done >= 4 THEN FALSE ELSE @]
        out3 == [i \in 1..made |-> Call(smb_calls[i], "")]
        \* lines 889-896
        was_running == Restored(st2, "oddjobd.running")
        st4 == Restore(st2, "oddjobd.running")
        stops == ~Truthy(was_running)
        run4 == IF stops /\ resp # "oddjobd.stop"
                THEN [run3 EXCEPT !["oddjobd"] = FALSE] ELSE run3
        out4 == << Ev("restore", "oddjobd.running", was_running) >>
                \o (IF stops THEN << Call("oddjobd.stop", "") >> ELSE << >>)
        \* lines 898-902
        was_enabled == Restored(st4, "oddjobd.enabled")
        st5 == Restore(st4, "oddjobd.enabled")
        disables == ~Truthy(was_enabled)
        en5 == IF disables /\ resp # "oddjobd.disable"
               THEN [en3 EXCEPT !["oddjobd"] = FALSE] ELSE en3
        out5 == << Ev("restore", "oddjobd.enabled", was_enabled) >>
                \o (IF disables THEN << Call("oddjobd.disable", "") >> ELSE << >>)
        \* lines 907-913
        was_boolean == Restored(st5, "smb.samba_portmapper")
        st6 == Restore(st5, "smb.samba_portmapper")
        r6 == set_selinux_booleans(sel, st6, was_boolean, FALSE, resp)
        out6 == << Ev("restore", "smb.samba_portmapper", was_boolean) >>
                \o r6.out
                \o (IF r6.failed THEN << Msg("WARNING: SetseboolError") >>
                    ELSE << >>)
        \* lines 915-926
        out7 == << Call("remove_file", "krb5cc_samba"),
                   Call("remove_file", "smb.conf"),
                   Call("listdir", "samba dir") >>
                \o (IF resp = "listdir" THEN << >>
                    ELSE << Call("remove_file", "tdb files") >>)
    IN
    [ running |-> run4, enabled |-> en5, selinux |-> r6.selinux,
      sstore |-> r6.sstore, smb_conf |-> FALSE,
      out |-> out2 \o out3 \o out4 \o out5 \o out6 \o out7,
      err |-> IF resp = "listdir" THEN "listdir failed" ELSE "" ]

\* the collaborator calls of uninstall that may fail in the state at hand
UninstallFailures ==
    {"smb.stop", "smb.disable", "winbind.stop", "winbind.disable", "listdir"}
    \cup (IF Truthy(sstore["oddjobd.running"]) THEN {} ELSE {"oddjobd.stop"})
    \cup (IF Truthy(sstore["oddjobd.enabled"]) THEN {} ELSE {"oddjobd.disable"})
    \cup (IF sstore["smb.samba_portmapper"] \in {Absent, selinux}
          THEN {} ELSE {"setsebool"})

Uninstall ==
    /\ phase # "running"
    /\ runs < MaxOps
    /\ runs' = runs + 1
    /\ \E resp \in Responses(UninstallFailures) :
         LET r == uninstall(running, enabled, selinux, sstore, resp) IN
           /\ running' = r.running
           /\ enabled' = r.enabled
           /\ selinux' = r.selinux
           /\ sstore' = r.sstore
           /\ smb_conf' = r.smb_conf
           /\ log' = r.out \o (IF r.err = "" THEN << >>
                               ELSE << Ev("raise", r.err, "") >>)
           /\ error' = r.err
           /\ Fault(resp)
    /\ phase' = "uninstalled"
    /\ failed_step' = ""
    /\ executed' = << >>
    /\ UNCHANGED <<dirvars, setupvars, steps, pc>>

---------------------------------------------------------------------------
(* The module's functions called on their own: check_netbios_name and      *)
(* make_netbios_name on a name, __gen_sid_string on successive draws       *)

installvars == <<dirvars, sysvars, rid_base, secondary_rid_base, netbios_name,
                 reset_netbios_name, enable_compat, add_sids,
                 steps, pc, phase, failed_step, error, executed, log, faults,
                 runs>>

\* line 88: the caller keeps the answer
CheckNetbiosName ==
    /\ netbios_ok = Absent
    /\ netbios_ok' = BoolStr(check_netbios_name(arg))
    /\ UNCHANGED <<installvars, arg, host_netbios_name,
                   urandom, sid_string, prev_urandom, prev_sid_string>>

\* line 152: self.host_netbios_name = make_netbios_name(self.fqdn)
MakeNetbiosName ==
    /\ arg # NoneStr
    /\ host_netbios_name = NoneStr
    /\ host_netbios_name' = make_netbios_name(arg)
    /\ UNCHANGED <<installvars, arg, netbios_ok,
                   urandom, sid_string, prev_urandom, prev_sid_string>>

\* line 420: __gen_sid_string() on the bytes os.urandom returned
GenSidString ==
    /\ sid_string = << >>
    /\ sid_string' = gen_sid_string(urandom)
    /\ UNCHANGED <<installvars, arg, netbios_ok, host_netbios_name,
                   urandom, prev_urandom, prev_sid_string>>

\* the 12-byte strings with at most MaxNonZero bytes other than zero, and
\* the one of twelve 255s
SidBytes == {1, 10, 255}
Draws ==
    { [i \in 1..12 |-> IF i \in DOMAIN f THEN f[i] ELSE 0] :
        f \in UNION { [P -> SidBytes] :
                        P \in {Q \in SUBSET (1..12) : Cardinality(Q) <= MaxNonZero} } }
    \cup { [i \in 1..12 |-> 255] }

\* a draw and the draws that differ from it in one byte
OneByteApart(d) ==
    { [d EXCEPT ![i] = v] : i \in 1..12, v \in SidBytes \cup {0} }

\* line 182: the next call of os.urandom(12)
Urandom ==
    /\ sid_string # << >>
    /\ prev_sid_string = << >>
    /\ prev_urandom' = urandom
    /\ prev_sid_string' = sid_string
    /\ urandom' \in OneByteApart(urandom)
    /\ sid_string' = << >>
    /\ UNCHANGED <<installvars, arg, netbios_ok, host_netbios_name>>

---------------------------------------------------------------------------
(* Specifications *)

Range(present, size, base, sec) ==
    [present |-> present, size |-> size, base |-> base, sec |-> sec]

NoRange == Range(FALSE, 1, NoRid, NoRid)

\* the kinds of ID range entry a directory may hold before the first run:
\* none, one without RID bases (of each size), one with a primary base
RangeKinds ==
    << NoRange >>
    \o [sz \in Sizes |-> Range(TRUE, sz, NoRid, NoRid)]
    \o << Range(TRUE, MaxSize, 1, NoRid) >>

\* the directories over these kinds, one per multiset of entries (the order
\* of the entries under cn=ranges carries no meaning)
InitRangeSets ==
    { [i \in RangeIds |-> RangeKinds[k[i]]] :
        k \in { f \in [RangeIds -> 1..Len(RangeKinds)] :
                  \A i, j \in RangeIds : i < j => f[i] <= f[j] } }

NoDomain ==
    [exists |-> FALSE, flat |-> "", sid |-> NoSid, guid |-> << >>,
     fallback |-> FALSE]

AdminEntry(exists, dom, rid) == [exists |-> exists, dom |-> dom, rid |-> rid]

Targets(exists, members) == [exists |-> exists, members |-> members]

\* what the constructor and setup leave of the installer, the services and
\* the files, on a system never installed on
InitObject ==
    /\ steps = << >>
    /\ pc = 1
    /\ phase = "idle"
    /\ failed_step = ""
    /\ error = ""
    /\ log = << >>
    /\ executed = << >>
    /\ faults = 0
    /\ sstore = EmptyStore
    /\ ldap_enabled = {}
    /\ smb_conf = FALSE
    /\ fb_group = FALSE
    /\ trust_view = FALSE
    /\ plugins = {}
    /\ netbios_name = "IPA"
    /\ enabled = [s \in Services |-> FALSE]
    /\ selinux = "off"

\* ... and of the directory: no samba domain object, the admin user and the
\* admins group without a SID
InitCommon ==
    /\ InitObject
    /\ smb_dom = NoDomain
    /\ admin_sids = [e \in {"admin", "admins"} |-> AdminEntry(TRUE, NoSid, 0)]

\* no function has been called on its own
NoFunCalls ==
    /\ arg = << >>
    /\ netbios_ok = Absent
    /\ host_netbios_name = NoneStr
    /\ urandom = << >>
    /\ sid_string = << >>
    /\ prev_urandom = << >>
    /\ prev_sid_string = << >>

\* systems that differ in the services running, in the delegation targets
\* entry and in the optional steps; the one ID range lacks its RID bases and
\* the requested bases are as far apart as the range is large
Init ==
    /\ InitCommon
    /\ NoFunCalls
    /\ runs = 0
    /\ reset_netbios_name = FALSE
    /\ ranges = [i \in RangeIds |-> IF i = 1
                                    THEN Range(TRUE, MaxSize, NoRid, NoRid)
                                    ELSE NoRange]
    /\ rid_base = 1
    /\ secondary_rid_base = 1 + MaxSize
    /\ s4u_members \in {Targets(FALSE, << >>), Targets(TRUE, << >>)}
    /\ running \in { [s \in Services |-> IF s = "oddjobd" THEN o ELSE r] :
                       o, r \in BOOLEAN }
    /\ enable_compat \in BOOLEAN
    /\ add_sids = enable_compat

\* systems that differ in their ID ranges and in the requested secondary
\* RID base, on which one operation is run
InitRid ==
    /\ InitCommon
    /\ NoFunCalls
    /\ reset_netbios_name = FALSE
    /\ runs = MaxOps - 1
    /\ ranges \in InitRangeSets
    /\ rid_base = MaxSize
    /\ secondary_rid_base \in Rids
    /\ s4u_members = Targets(TRUE, << >>)
    /\ running = [s \in Services |-> TRUE]
    /\ enable_compat = TRUE
    /\ add_sids = TRUE

\* systems on which the installer is run again, set up with or without
\* reset_netbios_name
InitRerun ==
    /\ InitCommon
    /\ NoFunCalls
    /\ runs = 0
    /\ reset_netbios_name \in BOOLEAN
    /\ ranges = [i \in RangeIds |-> IF i = 1
                                    THEN Range(TRUE, MaxSize, NoRid, NoRid)
                                    ELSE NoRange]
    /\ rid_base = 1
    /\ secondary_rid_base = 1 + MaxSize
    /\ s4u_members = Targets(TRUE, << >>)
    /\ running \in { [s \in Services |-> IF s = "oddjobd" THEN FALSE ELSE r] :
                       r \in BOOLEAN }
    /\ enable_compat = TRUE
    /\ add_sids = TRUE

\* a new installer object on a system where create_instance has run to its
\* end before: the directory is provisioned, the services run, and the state
\* store holds what that run saved
InitInstalled ==
    /\ NoFunCalls
    /\ steps = << >>
    /\ pc = 1
    /\ phase = "idle"
    /\ failed_step = ""
    /\ error = ""
    /\ log = << >>
    /\ executed = << >>
    /\ faults = 0
    /\ runs = 0
    /\ \E r, o \in BOOLEAN :
         sstore = Backup(Backup(Backup(Backup(Backup(EmptyStore,
                    "smb.running", BoolStr(r)),
                    "smb.enabled", "False"),
                    "smb.samba_portmapper", "off"),
                    "oddjobd.running", BoolStr(o)),
                    "oddjobd.enabled", "False")
    /\ ldap_enabled = {"ADTRUST", "EXTID"}
    /\ smb_conf = TRUE
    /\ fb_group = TRUE
    /\ trust_view = TRUE
    /\ plugins = {"ipa_cldap", "ipa-sidgen-task"}
    /\ smb_dom = [ exists |-> TRUE, flat |-> "IPA",
                   sid |-> gen_sid_string(urandom_draw(1)),
                   guid |-> uuid4(urandom_draw(1)), fallback |-> TRUE ]
    /\ admin_sids =
         [ admin |-> AdminEntry(TRUE, gen_sid_string(urandom_draw(1)), RID_ADMIN),
           admins |-> AdminEntry(TRUE, gen_sid_string(urandom_draw(1)), RID_ADMINS) ]
    /\ netbios_name = "IPA"
    /\ reset_netbios_name = FALSE
    /\ enabled = [s \in Services |-> s = "oddjobd"]
    /\ running = [s \in Services |-> TRUE]
    /\ selinux = "on"
    /\ ranges = [i \in RangeIds |-> IF i = 1
                                    THEN Range(TRUE, MaxSize, 1, 1 + MaxSize)
                                    ELSE NoRange]
    /\ rid_base = 1
    /\ secondary_rid_base = 1 + MaxSize
    /\ s4u_members = Targets(TRUE, << cifs_principal >>)
    /\ enable_compat = TRUE
    /\ add_sids = TRUE

\* the kinds of ID range entry by the RID bases they hold: no entry, an entry
\* with neither base, with the primary only, with the secondary only, with
\* both
CandidateKinds ==
    << NoRange,
       Range(TRUE, MaxSize, NoRid, NoRid),
       Range(TRUE, MaxSize, 1, NoRid),
       Range(TRUE, MaxSize, NoRid, 1),
       Range(TRUE, MaxSize, 1, 1 + MaxSize) >>

InitCandidateSets ==
    { [i \in RangeIds |-> CandidateKinds[k[i]]] :
        k \in { f \in [RangeIds -> 1..Len(CandidateKinds)] :
                  \A i, j \in RangeIds : i < j => f[i] <= f[j] } }

\* systems that differ in the RID bases their ID ranges hold and in the
\* requested secondary RID base, on which one operation is run
InitCandidates ==
    /\ InitCommon
    /\ NoFunCalls
    /\ reset_netbios_name = FALSE
    /\ runs = MaxOps - 1
    /\ ranges \in InitCandidateSets
    /\ rid_base = MaxSize
    /\ secondary_rid_base \in Rids
    /\ s4u_members = Targets(TRUE, << >>)
    /\ running = [s \in Services |-> TRUE]
    /\ enable_compat = TRUE
    /\ add_sids = TRUE

\* systems that differ in the two options of setup that add a step, on
\* which one operation is run
InitSteps ==
    /\ InitCommon
    /\ NoFunCalls
    /\ reset_netbios_name = FALSE
    /\ runs = MaxOps - 1
    /\ ranges = [i \in RangeIds |-> IF i = 1
                                    THEN Range(TRUE, MaxSize, NoRid, NoRid)
                                    ELSE NoRange]
    /\ rid_base = 1
    /\ secondary_rid_base = 1 + MaxSize
    /\ s4u_members = Targets(TRUE, << >>)
    /\ running = [s \in Services |-> TRUE]
    /\ enable_compat \in BOOLEAN
    /\ add_sids \in BOOLEAN

\* a samba domain object that was there before the installer ran, under
\* another NetBIOS name
ExistingDomain(sid) ==
    [ exists |-> TRUE, flat |-> "OLD", sid |-> sid,
      guid |-> uuid4(urandom_draw(1)), fallback |-> FALSE ]

\* systems whose directory has a samba domain object already, with a SID or
\* without, and whose admin user and admins group have a SID of their own or
\* none, on which one operation is run with or without reset_netbios_name
InitExisting ==
    /\ InitObject
    /\ NoFunCalls
    /\ runs = MaxOps - 1
    /\ reset_netbios_name \in BOOLEAN
    /\ smb_dom \in { ExistingDomain(gen_sid_string(urandom_draw(1))),
                      ExistingDomain(NoSid) }
    /\ admin_sids \in
         [ {"admin", "admins"} ->
             { AdminEntry(TRUE, NoSid, 0),
               AdminEntry(TRUE, gen_sid_string(urandom_draw(MaxSidDraw)), 1000) } ]
    /\ ranges = [i \in RangeIds |-> IF i = 1
                                    THEN Range(TRUE, MaxSize, NoRid, NoRid)
                                    ELSE NoRange]
    /\ rid_base = 1
    /\ secondary_rid_base = 1 + MaxSize
    /\ s4u_members = Targets(TRUE, << >>)
    /\ running = [s \in Services |-> TRUE]
    /\ enable_compat = TRUE
    /\ add_sids = TRUE

\* systems never installed on, whose store is empty, and systems installed
\* on before, whose store holds the records of that run
InitStore == InitRerun \/ InitInstalled

\* an installer that is set up and on which no operation is run
InitIdle ==
    /\ InitCommon
    /\ runs = MaxOps
    /\ reset_netbios_name = FALSE
    /\ ranges = [i \in RangeIds |-> NoRange]
    /\ rid_base = 1
    /\ secondary_rid_base = 1 + MaxSize
    /\ s4u_members = Targets(TRUE, << >>)
    /\ running = [s \in Services |-> FALSE]
    /\ enable_compat = FALSE
    /\ add_sids = FALSE

example_fqdn ==
    << "e", "x", "a", "m", "p", "l", "e", "-", "c", "o", "r", "p", ".", "t", "e", "s", "t", ".", "l", "o", "c", "a", "l" >>

too_long_name ==
    << "t", "h", "i", "s", "-", "n", "a", "m", "e", "-", "i", "s", "-", "t", "o", "o", "-", "l", "o", "n", "g", "-", "t", "o", "-", "f", "i", "t" >>

\* the names the functions are called on: up to MaxPrefix characters, then
\* up to MaxPad repetitions of one character, then nothing or a second label
NameChars == {"a", "Z", "7", "-", "."}
Names ==
    { p \o [i \in 1..k |-> c] \o sfx :
        p \in UNION {[1..n -> NameChars] : n \in 0..MaxPrefix},
        c \in NameChars, k \in 0..MaxPad,
        sfx \in {<< >>, << ".", "b" >>} }
    \cup {example_fqdn, too_long_name, NoneStr}

InitNetbios ==
    /\ InitIdle
    /\ arg \in Names
    /\ netbios_ok = Absent
    /\ host_netbios_name = NoneStr
    /\ urandom = << >>
    /\ sid_string = << >>
    /\ prev_urandom = << >>
    /\ prev_sid_string = << >>

InitSid ==
    /\ InitIdle
    /\ arg = << >>
    /\ netbios_ok = Absent
    /\ host_netbios_name = NoneStr
    /\ urandom \in Draws
    /\ sid_string = << >>
    /\ prev_urandom = << >>
    /\ prev_sid_string = << >>

NextNetbios ==
    \/ CheckNetbiosName
    \/ MakeNetbiosName

NextSid ==
    \/ GenSidString
    \/ Urandom

Next ==
    \/ CreateInstance
    \/ Stop
    \/ CreateSambaDomainObject
    \/ WriteSmbRegistry
    \/ WriteSmbConf
    \/ SetupPrincipal
    \/ SetupGroupMembership
    \/ CheckReplica
    \/ AddS4u2proxyTarget
    \/ AddAdminSids
    \/ AddRidBases
    \/ UpdateKrb5Conf
    \/ AddCldapModule
    \/ AddSidgenTask
    \/ Enable
    \/ AddDnsServiceRecords
    \/ EnableCompatTree
    \/ RestartDirsrv
    \/ AddFallbackGroup
    \/ AddDefaultTrustView
    \/ ConfigureSelinuxForSmbd
    \/ EnableAndStartOddjobd
    \/ Start
    \/ AddSids
    \/ StartCreationDone
    \/ Uninstall

Spec == Init /\ [][Next]_vars

SpecRid == InitRid /\ [][Next]_vars

SpecRerun == InitRerun /\ [][Next]_vars

SpecInstalled == InitInstalled /\ [][Next]_vars

SpecSteps == InitSteps /\ [][Next]_vars

SpecCandidates == InitCandidates /\ [][Next]_vars

SpecStore == InitStore /\ [][Next]_vars

SpecExisting == InitExisting /\ [][Next]_vars

SpecNetbios == InitNetbios /\ [][NextNetbios]_vars

SpecSid == InitSid /\ [][NextSid]_vars

---------------------------------------------------------------------------
(* Properties *)

RidLabel == "adding RID bases"
S4uLabel == "adding cifs principal to S4U2Proxy targets"

\* the ranges that have neither RID base
Unassigned(rs) ==
    {i \in RangeIds : rs[i].present /\ rs[i].base = NoRid /\ rs[i].sec = NoRid}

Labels(sq) == [i \in 1..Len(sq) |-> sq[i].label]

\* C1: with exactly one range lacking both RID bases, of size `size`, the
\* RID-base step fails with 'RID bases too close' and writes nothing when
\* abs(rid_base - secondary_rid_base) <= size, and commits both bases to that
\* range when the separation is larger (unless the directory rejects the
\* write).
C1_SeparationDecidesCommit ==
    [][ (AtStep("__add_rid_bases") /\ Cardinality(Unassigned(ranges)) = 1) =>
          LET i == CHOOSE j \in Unassigned(ranges) : TRUE IN
            IF Abs(rid_base - secondary_rid_base) <= ranges[i].size
            THEN /\ phase' = "failed"
                 /\ error' = "RID bases too close.\n"
                 /\ ranges' = ranges
            ELSE \/ /\ ranges'[i].base = rid_base
                    /\ ranges'[i].sec = secondary_rid_base
                 \/ error' \in {"Constraint violation.\n", "NotFound"} ]_vars

\* C2: whenever the RID-base step writes bases to a range, the two bases it
\* leaves on that range are more than ipaIDRangeSize apart.
C2_CommittedBasesDoNotOverlap ==
    [][ \A i \in RangeIds :
          ranges'[i] # ranges[i] =>
            Abs(ranges'[i].base - ranges'[i].sec) > ranges'[i].size ]_vars

\* C3: the steps run in registration order, one at a time; after a fatal
\* failure exactly the steps up to and including the failing one have been
\* run, nothing runs after it, and the failure carries that step's label.
C3_StepsInOrderUntilFailure ==
    /\ phase = "running" =>
         /\ executed = Labels(SubSeq(steps, 1, pc - 1))
         /\ pc > 1 => log[1] = Ev("step", steps[pc - 1].label, "")
    /\ phase = "done" => executed = Labels(steps)
    /\ phase = "failed" =>
         /\ executed = Labels(SubSeq(steps, 1, pc))
         /\ failed_step = steps[pc].label
         /\ log[1] = Ev("step", steps[pc].label, "")
         /\ log[Len(log)].k = "raise"
    /\ \A i \in 1..Len(log) :
         log[i].k = "raise" => i = Len(log) /\ phase \in {"failed", "uninstalled"}

\* step 3 of the sequence failed: steps 1-3 were run and no other
C3_Witness ==
    /\ phase = "failed"
    /\ pc = 3
    /\ failed_step = "creating samba config registry"
    /\ Len(executed) = 3
    /\ Len(steps) > 3

\* C4: a record of the smb 'running' or 'enabled' flag, once made, is not
\* changed by any later step of any run until uninstall restores it, and
\* the value first recorded is the flag's value at that moment.
C4_FirstWriteWins ==
    [][ /\ \A k \in {"smb.running", "smb.enabled"} :
             (sstore[k] # Absent /\ phase' # "uninstalled") =>
                sstore'[k] = sstore[k]
        /\ (sstore["smb.running"] = Absent /\ sstore'["smb.running"] # Absent) =>
                sstore'["smb.running"] = BoolStr(running["smb"])
        /\ (sstore["smb.enabled"] = Absent /\ sstore'["smb.enabled"] # Absent) =>
                sstore'["smb.enabled"] = BoolStr(enabled["smb"]) ]_vars

\* a second run called backup_state with a value other than the recorded one
C4_Witness ==
    /\ phase = "running"
    /\ runs = 2
    /\ sstore["smb.running"] = "False"
    /\ Logged(Ev("backup", "smb.running", "True"))

\* C5: an uninstall that finds no record for an oddjobd flag leaves that
\* flag of oddjobd as it was.
C5_AbsentLeavesOddjobdUntouched ==
    [][ phase' = "uninstalled" =>
          /\ sstore["oddjobd.running"] = Absent =>
                running'["oddjobd"] = running["oddjobd"]
          /\ sstore["oddjobd.enabled"] = Absent =>
                enabled'["oddjobd"] = enabled["oddjobd"] ]_vars

\* C6: whatever reversal fails, uninstall still attempts all the others:
\* smb disable, winbind stop and disable, the oddjobd and SELinux restores
\* and the file removals.
C6_EveryReversalAttempted ==
    phase = "uninstalled" =>
      /\ Logged(Call("smb.stop", ""))
      /\ Logged(Call("smb.disable", ""))
      /\ Logged(Call("winbind.stop", ""))
      /\ Logged(Call("winbind.disable", ""))
      /\ \E i \in 1..Len(log) : log[i].k = "restore" /\ log[i].a = "oddjobd.running"
      /\ \E i \in 1..Len(log) : log[i].k = "restore" /\ log[i].a = "oddjobd.enabled"
      /\ \E i \in 1..Len(log) :
            log[i].k = "restore" /\ log[i].a = "smb.samba_portmapper"
      /\ Logged(Call("remove_file", "krb5cc_samba"))
      /\ Logged(Call("remove_file", "smb.conf"))

\* C7: once the S4U2Proxy step has found the delegation targets entry
\* missing, the run is aborted at that step and no later step runs.
C7_MissingTargetsAborts ==
    Logged(Msg(UPGRADE_ERROR)) =>
      /\ phase = "failed"
      /\ failed_step = S4uLabel
      /\ executed[Len(executed)] = S4uLabel

C9_TooManyRanges ==
    [][ (AtStep("__add_rid_bases") /\ Cardinality(Unassigned(ranges)) >= 2) =>
          /\ ranges' = ranges
          /\ phase' = "failed"
          /\ error' = "Too many ID ranges\n"
          /\ failed_step' = RidLabel
          /\ pc' = pc ]_vars

\* the run was aborted at the RID-base step with two candidate ranges
C9_Witness ==
    /\ phase = "failed"
    /\ error = "Too many ID ranges\n"
    /\ failed_step = RidLabel
    /\ Cardinality(Unassigned(ranges)) >= 2
    /\ rid_base # secondary_rid_base

\* the flag a collaborator call changes ("" when it changes none)
FlagChangedBy(e) ==
    IF e \in {Call("winbind", "stop"), Call("smb", "stop")} THEN "smb.running"
    ELSE IF e \in {Call("ldap_enable", "ADTRUST"), Call("ldap_enable", "EXTID")}
    THEN "smb.enabled"
    ELSE IF e = Call("setsebool", "samba_portmapper") THEN "smb.samba_portmapper"
    ELSE ""

\* C10: within a step of create_instance, every call that changes the smb
\* 'running' state, the 'enabled' state or an SELinux boolean comes after
\* the backup call for that flag.
C10_BackupBeforeMutation ==
    phase \in {"running", "done", "failed"} =>
      \A i \in 1..Len(log) :
        FlagChangedBy(log[i]) # "" =>
          \E j \in 1..(i - 1) :
            log[j].k = "backup" /\ log[j].a = FlagChangedBy(log[i])

\* a finished run that stopped smb, wrote the startup entries and set the
\* SELinux boolean, with the three flags' earlier values in the store
C10_Witness ==
    /\ phase = "done"
    /\ sstore["smb.running"] = "True"
    /\ sstore["smb.enabled"] = "False"
    /\ sstore["smb.samba_portmapper"] = "off"
    /\ selinux = "on"
    /\ ldap_enabled = {"ADTRUST", "EXTID"}

\* whether the trace of the step just run has entry e
LoggedNext(e) == \E i \in 1..Len(log') : log'[i] = e

\* the step just run returned and start_creation is at the next one
Returned == phase' = "running" /\ pc' = pc + 1 /\ error' = ""

\* C11: a step run against a system that already has its effect repeats no
\* mutation and returns: the samba domain object is not added again, a
\* range that has RID bases is given none, the cifs principal is not
\* appended again to memberPrincipal (where it is at most once), the
\* fallback group attribute is not added again.
C11_RerunDuplicatesNothing ==
    [][ /\ (AtStep("__create_samba_domain_object") /\ smb_dom.exists) =>
             /\ smb_dom'.exists
             /\ smb_dom'.sid = smb_dom.sid
             /\ smb_dom'.fallback = smb_dom.fallback
             /\ ~LoggedNext(Call("ldap", "add_entry"))
             /\ Returned
        /\ AtStep("__add_rid_bases") =>
             /\ \A i \in RangeIds :
                  (ranges[i].present /\ i \notin Unassigned(ranges)) =>
                     ranges'[i] = ranges[i]
             /\ (\A i \in RangeIds : ranges[i].present => i \notin Unassigned(ranges)) =>
                  /\ ~LoggedNext(Call("ldap", "modify_s range"))
                  /\ Returned
        /\ (AtStep("__add_s4u2proxy_target")
            /\ InSeq(cifs_principal, s4u_members.members)) =>
             /\ s4u_members' = s4u_members
             /\ ~LoggedNext(Call("ldap", "update_entry"))
             /\ Returned
        /\ (AtStep("__add_fallback_group") /\ smb_dom.fallback) =>
             /\ smb_dom' = smb_dom
             /\ fb_group' = fb_group
             /\ ~LoggedNext(Call("ldap", "modify_s fallback group"))
             /\ Returned
        /\ Cardinality({i \in 1..Len(s4u_members'.members) :
                          s4u_members'.members[i] = cifs_principal}) <= 1 ]_vars

\* a second run has gone through the four steps on a system the first run
\* provisioned
C11_Witness ==
    /\ runs = 2
    /\ phase = "running"
    /\ Logged(Msg("Fallback group already set, nothing to do"))
    /\ smb_dom.exists
    /\ s4u_members.members = << cifs_principal >>
    /\ ranges[1].base = rid_base
    /\ ranges[1].sec = secondary_rid_base

\* C12: a SID the samba domain object carries is never changed by any
\* step of any run, with or without reset_netbios_name; the object gets a
\* SID only in the step that creates it, when it did not exist; the SID of
\* an admin or admins entry that has one is never changed.
C12_SidNeverRegenerated ==
    [][ /\ smb_dom.sid # NoSid => smb_dom'.sid = smb_dom.sid
        /\ smb_dom'.sid # smb_dom.sid =>
             /\ AtStep("__create_samba_domain_object")
             /\ ~smb_dom.exists
             /\ smb_dom'.sid \in {gen_sid_string(d) : d \in SidDraws}
        /\ \A e \in {"admin", "admins"} :
             admin_sids[e].dom # NoSid => admin_sids'[e] = admin_sids[e] ]_vars

\* a second run, set up with reset_netbios_name, has been through the
\* domain object step and found both admin SIDs set
C12_Witness ==
    /\ runs = 2
    /\ phase = "running"
    /\ reset_netbios_name
    /\ Logged(Msg("Admin SID already set, nothing to do"))
    /\ Logged(Msg("Admin group SID already set, nothing to do"))
    /\ smb_dom.sid \in {gen_sid_string(d) : d \in SidDraws}
    /\ admin_sids["admin"].dom = smb_dom.sid

\* the steps whose method catches the failure of what it applies
SoftFail == {"__add_cldap_module", "__add_sidgen_task", "__add_sids",
             "__configure_selinux_for_smbd"}

\* C13: a step that applies the CLDAP or sidgen plugin configuration, runs
\* the SID task for existing users and groups or sets the SELinux booleans
\* returns whether or not that fails; no run fails at such a step, and a
\* run that is not aborted elsewhere runs every step registered.
C13_SoftFailuresDoNotAbort ==
    [][ /\ (phase = "running" /\ pc <= Len(steps)
            /\ steps[pc].method \in SoftFail) =>
             /\ Returned
             /\ executed' = Append(executed, steps[pc].label)
        /\ phase' = "failed" => steps'[pc'].method \notin SoftFail
        /\ phase' = "done" => executed' = Labels(steps') ]_vars

\* a run went through all its steps although the CLDAP plugin
\* configuration could not be applied
C13_Witness ==
    /\ phase = "done"
    /\ faults = 1
    /\ "ipa_cldap" \notin plugins
    /\ "ipa-sidgen-task" \in plugins
    /\ executed = Labels(steps)

\* C14: when the directory rejects the write of the RID bases with a
\* constraint violation, the step fails with 'Constraint violation', which
\* is not the 'RID bases too close' of the step's own test (raised before
\* anything is written), and the run is aborted at that step.
C14_ConstraintViolationDistinct ==
    [][ AtStep("__add_rid_bases") =>
          /\ LoggedNext(Msg("Failed to add RID bases to the local range object")) =>
                /\ LoggedNext(Call("ldap", "modify_s range"))
                /\ phase' = "failed"
                /\ failed_step' = RidLabel
                /\ error' = "Constraint violation.\n"
                /\ error' # "RID bases too close.\n"
                /\ ranges' = ranges
                /\ pc' = pc
          /\ error' = "RID bases too close.\n" =>
                ~LoggedNext(Call("ldap", "modify_s range")) ]_vars

\* the run was aborted by the directory's refusal of the write
C14_Witness ==
    /\ phase = "failed"
    /\ failed_step = RidLabel
    /\ error = "Constraint violation.\n"
    /\ Logged(Call("ldap", "modify_s range"))
    /\ Logged(Msg("Failed to add RID bases to the local range object"))

\* C15: a record made by backup is returned by the first restore, which
\* deletes it, and a second restore finds none: uninstall is handed the
\* recorded 'running' and 'enabled' flags of smb and leaves no record of
\* them, and an uninstall right after an uninstall is handed none.
C15_RestoreReturnsOnce ==
    [][ /\ \A k \in StoreKeys, v \in {"True", "False"} :
             /\ Restored(Backup(EmptyStore, k, v), k) = v
             /\ Restored(Restore(Backup(EmptyStore, k, v), k), k) = Absent
        /\ (phase' = "uninstalled" /\ runs' = runs + 1) =>
             \A k \in {"smb.running", "smb.enabled"} :
               /\ LoggedNext(Ev("restore", k, sstore[k]))
               /\ sstore'[k] = Absent
               /\ phase = "uninstalled" => LoggedNext(Ev("restore", k, Absent)) ]_vars

\* a second uninstall, right after the first, restored nothing
C15_Witness ==
    /\ phase = "uninstalled"
    /\ runs = 2
    /\ Logged(Ev("restore", "smb.running", Absent))
    /\ Logged(Ev("restore", "smb.enabled", Absent))

Marker == Ev("done", "installation complete", "")

\* C20: the 'installation complete' marker is printed once in a run, when
\* every registered step has been run and not before; a run that a step
\* aborted never prints it.
C20_CompletionMarkerOnce ==
    [][ /\ LoggedNext(Marker) =>
             /\ ~Logged(Marker)
             /\ phase = "running"
             /\ pc > Len(steps)
             /\ executed = Labels(steps)
             /\ phase' = "done"
             /\ Cardinality({i \in 1..Len(log') : log'[i] = Marker}) = 1
        /\ phase' = "done" => LoggedNext(Marker)
        /\ phase' = "failed" => ~LoggedNext(Marker)
        /\ (phase = "failed" /\ phase' = "running") => runs' = runs + 1 ]_vars

\* a second run has come to its end and printed the marker
C20_Witness ==
    /\ phase = "done"
    /\ runs = 2
    /\ log = << Marker >>
    /\ executed = Labels(steps)


\* the ranges that have a RID base, primary or secondary
Assigned(rs) ==
    {i \in RangeIds : rs[i].present /\ (rs[i].base # NoRid \/ rs[i].sec # NoRid)}

C23_UninstallEmptiesStore ==
    phase = "uninstalled" =>
      /\ StoreKeys = {"smb.running", "smb.enabled", "smb.samba_portmapper",
                      "oddjobd.running", "oddjobd.enabled"}
      /\ \A key \in StoreKeys : sstore[key] = Absent

\* uninstall ran after a run of create_instance that had saved the state of
\* smbd and failed before it reached the SELinux boolean and oddjobd
C23_Witness ==
    /\ phase = "uninstalled"
    /\ runs = 2
    /\ \E v \in {"True", "False"} : Logged(Ev("restore", "smb.running", v))
    /\ Logged(Ev("restore", "smb.enabled", "False"))
    /\ Logged(Ev("restore", "smb.samba_portmapper", Absent))
    /\ Logged(Ev("restore", "oddjobd.enabled", Absent))
    /\ sstore = EmptyStore

CompatLabel == "enabling trusted domains support for older clients via Schema Compatibility plugin"
SidsLabel == "adding SIDs to existing users and groups"
RestartLabel == "restarting Directory Server to take MS PAC and LDAP plugins changes into account"
FallbackLabel == "adding fallback group"

CoreLabels ==
    << "stopping smbd",
       "creating samba domain object",
       "creating samba config registry",
       "writing samba config file",
       "adding cifs Kerberos principal",
       "adding cifs and host Kerberos principals to the adtrust agents group",
       "check for cifs services defined on other replicas",
       "adding cifs principal to S4U2Proxy targets",
       "adding admin(group) SIDs",
       "adding RID bases",
       "updating Kerberos config",
       "activating CLDAP plugin",
       "activating sidgen task",
       "configuring smbd to start on boot",
       "adding special DNS service records",
       RestartLabel,
       FallbackLabel,
       "adding Default Trust View",
       "setting SELinux booleans",
       "enabling oddjobd",
       "starting CIFS services" >>

\* the labels of the registered steps, and how often one occurs
StepLabels == [i \in 1..Len(steps) |-> steps[i].label]
Occurrences(l) == Cardinality({i \in 1..Len(steps) : steps[i].label = l})

\* a step of start_creation's loop has just been run
StepRan ==
    /\ phase = "running"
    /\ pc <= Len(steps)
    /\ pc' = pc + 1 \/ phase' = "failed"

\* the places of the trace at which the connection is opened
Connects(l) == {k \in 1..Len(l) : l[k] = Call("ldap", "connect")}

\* C21: in every step list create_instance builds, whatever enable_compat and
\* add_sids are, the restart of the directory server is the step right before
\* the fallback-group step, so no step reaches the directory in between; the
\* fallback-group step opens the connection again before anything else it
\* does, its first read of the directory included; and the connection is
\* opened nowhere else but once at the start of create_instance.
C21_ReconnectAfterRestart ==
    /\ [](steps # << >> =>
            \E i \in 1..(Len(steps) - 1) :
              /\ steps[i].method = "__restart_dirsrv"
              /\ steps[i + 1].method = "__add_fallback_group"
              /\ Occurrences(RestartLabel) = 1
              /\ Occurrences(FallbackLabel) = 1)
    /\ [][ /\ (phase # "running" /\ phase' = "running") =>
                log' = << Call("ldap", "connect") >>
           /\ (StepRan /\ steps[pc].method = "__add_fallback_group") =>
                /\ executed[Len(executed)] = RestartLabel
                /\ Connects(log') = {2}
                /\ \E k \in 3..Len(log') :
                     log'[k] = Call("ldap", "get_entry smb_dom_dn")
           /\ (StepRan /\ steps[pc].method # "__add_fallback_group") =>
                Connects(log') = {}
           /\ (phase' \in {"done", "uninstalled"}) => Connects(log') = {}
         ]_vars

\* the fallback-group step has just run, in a sequence without the Schema
\* Compatibility step and with the step that adds the SIDs
C21_Witness ==
    /\ phase = "running"
    /\ ~enable_compat
    /\ add_sids
    /\ Len(log) >= 3
    /\ log[1] = Ev("step", FallbackLabel, "")
    /\ log[2] = Call("ldap", "connect")
    /\ executed[Len(executed) - 1] = RestartLabel

\* C27: the step list create_instance builds holds the 21 core steps in one
\* fixed order, from 'stopping smbd' to 'starting CIFS services'; the Schema
\* Compatibility step is in it exactly when enable_compat is set, and then
\* right before the restart of the directory server; the step adding SIDs to
\* existing users and groups is in it exactly when add_sids is set, and then
\* it is the last step.
C27_StepListShape ==
    steps # << >> =>
      LET core(l) == l \notin {CompatLabel, SidsLabel} IN
      /\ SelectSeq(StepLabels, core) = CoreLabels
      /\ Len(CoreLabels) = 21
      /\ CoreLabels[1] = "stopping smbd"
      /\ CoreLabels[21] = "starting CIFS services"
      /\ Occurrences(CompatLabel) = (IF enable_compat THEN 1 ELSE 0)
      /\ enable_compat =>
           StepLabels[Index(CompatLabel, StepLabels) + 1] = RestartLabel
      /\ Occurrences(SidsLabel) = (IF add_sids THEN 1 ELSE 0)
      /\ add_sids => StepLabels[Len(steps)] = SidsLabel
      /\ ~add_sids => StepLabels[Len(steps)] = "starting CIFS services"

\* a run with the Schema Compatibility step and without the step adding SIDs
\* has come to its end, every one of its 22 steps run
C27_Witness ==
    /\ phase = "done"
    /\ enable_compat
    /\ ~add_sids
    /\ Len(steps) = 22
    /\ executed = StepLabels


C25_ExistingDomainObject ==
    [][ (AtStep("__create_samba_domain_object") /\ smb_dom.exists) =>
          /\ ~LoggedNext(Call("ldap", "add_entry"))
          /\ Returned
          /\ UNCHANGED <<ranges, s4u_members, admin_sids, fb_group, trust_view>>
          /\ ~reset_netbios_name =>
               /\ smb_dom' = smb_dom
               /\ log' = << Ev("step", "creating samba domain object", ""),
                            Msg("Samba domain object already exists") >>
          /\ reset_netbios_name =>
               /\ smb_dom' = [smb_dom EXCEPT !.flat = smb_dom'.flat]
               /\ smb_dom'.sid = smb_dom.sid
               /\ smb_dom'.guid = smb_dom.guid
               /\ LoggedNext(Call("ldap", "modify_s ipaNTFlatName"))
               /\ IF LoggedNext(Msg("Failed to reset the NetBIOS domain name"))
                  THEN smb_dom' = smb_dom
                  ELSE smb_dom'.flat = netbios_name ]_vars

\* the replace of the flat name of an existing object failed: the object has
\* its old name, which is not netbios_name, and the run is at the next step
C25_Witness ==
    /\ phase = "running"
    /\ reset_netbios_name
    /\ Logged(Ev("step", "creating samba domain object", ""))
    /\ Logged(Msg("Failed to reset the NetBIOS domain name"))
    /\ smb_dom.flat = "OLD"
    /\ netbios_name # smb_dom.flat
    /\ smb_dom.sid # NoSid
    /\ steps[pc].label = "creating samba config registry"

\* C26: the step 'adding admin(group) SIDs' never aborts the run.  When the
\* domain object has SID D and the admin user and the admins group both
\* exist, the admin user has the SID D-500 afterwards if it had none and the
\* write succeeded, the admins group the SID D-512 if it had none and the
\* write succeeded, an entry that had a SID keeps it, and the write to the
\* admins group is made whether or not the write to the admin user failed.
\* When the domain object is missing or has no SID neither entry is changed.
C26_AdminSids ==
    [][ AtStep("__add_admin_sids") =>
          LET D == smb_dom.sid
              failed(what) == LoggedNext(Msg("Failed to modify IPA " \o what \o " object"))
          IN
          /\ Returned
          /\ (~smb_dom.exists \/ D = NoSid) => admin_sids' = admin_sids
          /\ \A resp \in {"ok", "admin", "admins"} :
               add_admin_sids(NoDomain, admin_sids, resp).sids = admin_sids
          /\ (smb_dom.exists /\ D # NoSid
              /\ admin_sids["admin"].exists /\ admin_sids["admins"].exists) =>
               /\ admin_sids'["admin"] =
                    IF admin_sids["admin"].dom = NoSid /\ ~failed("admin")
                    THEN AdminEntry(TRUE, D, 500)
                    ELSE admin_sids["admin"]
               /\ admin_sids'["admins"] =
                    IF admin_sids["admins"].dom = NoSid /\ ~failed("admin group")
                    THEN AdminEntry(TRUE, D, 512)
                    ELSE admin_sids["admins"]
               /\ admin_sids["admins"].dom = NoSid =>
                    LoggedNext(Call("ldap", "modify_s admins")) ]_vars

\* the write to the admin user failed and the admins group has the SID D-512
\* all the same; the run is at the next step
C26_Witness ==
    /\ phase = "running"
    /\ Logged(Ev("step", "adding admin(group) SIDs", ""))
    /\ Logged(Msg("Failed to modify IPA admin object"))
    /\ admin_sids["admin"].dom = NoSid
    /\ smb_dom.sid # NoSid
    /\ admin_sids["admins"] = AdminEntry(TRUE, smb_dom.sid, 512)
    /\ steps[pc].label = "adding RID bases"

---------------------------------------------------------------------------
(* Properties of the module's functions *)

AZ09 ==
    {ascii_uppercase[i] : i \in 1..Len(ascii_uppercase)}
    \cup {digits[i] : i \in 1..Len(digits)}

Letters ==
    {ascii_uppercase[i] : i \in 1..Len(ascii_uppercase)}
    \cup {ascii_lowercase[i] : i \in 1..Len(ascii_lowercase)}

Digits == {digits[i] : i \in 1..Len(digits)}

\* a fully qualified name: labels separated by '.', made of letters, digits
\* and '-', each beginning with a letter or a digit
ValidFqdn(f) ==
    /\ f # NoneStr
    /\ f # << >>
    /\ \A i \in 1..Len(f) : f[i] \in Letters \cup Digits \cup {"-", "."}
    /\ \A i \in 1..Len(f) :
         (i = 1 \/ f[i - 1] = ".") => f[i] \in Letters \cup Digits

\* the uppercase form of a character
Uppercased(c) ==
    IF \E i \in 1..26 : ascii_lowercase[i] = c
    THEN ascii_uppercase[CHOOSE i \in 1..26 : ascii_lowercase[i] = c]
    ELSE c

\* the length of the first dot-separated label of f
FirstLabelLen(f) ==
    IF \E i \in 1..Len(f) : f[i] = "."
    THEN (CHOOSE i \in 1..Len(f) :
            f[i] = "." /\ \A j \in 1..(i - 1) : f[j] # ".") - 1
    ELSE Len(f)

\* C16: for every valid fully qualified name f, make_netbios_name(f) passes
\* check_netbios_name: it is non-empty, at most 15 characters long and made
\* of characters in [A-Z0-9] only; and it is the first 15 of the characters
\* of the uppercased first label of f that are in [A-Z0-9], in their order.
C16_DerivedNameIsValid ==
    (ValidFqdn(arg) /\ host_netbios_name # NoneStr) =>
      LET kept == {i \in 1..FirstLabelLen(arg) : Uppercased(arg[i]) \in AZ09}
          nth(k) == CHOOSE i \in kept : Cardinality({j \in kept : j <= i}) = k
      IN
      /\ check_netbios_name(host_netbios_name)
      /\ host_netbios_name # << >>
      /\ Len(host_netbios_name) <= 15
      /\ \A k \in 1..Len(host_netbios_name) : host_netbios_name[k] \in AZ09
      /\ Len(host_netbios_name) =
           (IF Cardinality(kept) > 15 THEN 15 ELSE Cardinality(kept))
      /\ \A k \in 1..Len(host_netbios_name) :
           host_netbios_name[k] = Uppercased(arg[nth(k)])

\* a name was derived from a valid name whose first label has a lowercase
\* letter, a '-' and more than 15 characters that are kept
C16_Witness ==
    /\ ValidFqdn(arg)
    /\ Len(host_netbios_name) = 15
    /\ arg[1] = "a"
    /\ arg[2] = "-"
    /\ FirstLabelLen(arg) > 17
    /\ FirstLabelLen(arg) < Len(arg)

\* C17 as stated: the name derived from "example-corp.test.local" is
\* "EXAMPLE-CORP".
C17_ExampleDerivation ==
    (arg = example_fqdn /\ host_netbios_name # NoneStr) =>
      host_netbios_name = << "E", "X", "A", "M", "P", "L", "E", "-", "C", "O", "R", "P" >>

\* C17: the name derived from "example-corp.test.local" is "EXAMPLECORP":
\* the '-' is not in [A-Z0-9] and is dropped with the rest.
C17_ExampleDerivesExamplecorp ==
    (arg = example_fqdn /\ host_netbios_name # NoneStr) =>
      host_netbios_name = << "E", "X", "A", "M", "P", "L", "E", "C", "O", "R", "P" >>

\* the name has been derived from "example-corp.test.local"
C17_Witness ==
    /\ arg = example_fqdn
    /\ host_netbios_name # NoneStr
    /\ Len(host_netbios_name) = 11

\* C18: check_netbios_name(s) is true exactly when s is non-empty, at most
\* 15 characters long and made of characters in [A-Z0-9] only; it is false
\* for the empty string, for None, for a name of more than 15 characters
\* (such as "this-name-is-too-long-to-fit") and for a name with a lowercase
\* letter, a '-' or a '.'.
C18_CheckNetbiosName ==
    netbios_ok # Absent =>
      /\ (netbios_ok = "True") <=>
            /\ arg # NoneStr
            /\ arg # << >>
            /\ Len(arg) <= 15
            /\ \A i \in 1..Len(arg) : arg[i] \in AZ09
      /\ ( \/ arg \in {<< >>, NoneStr, too_long_name}
           \/ Len(arg) > 15
           \/ \E i \in 1..Len(arg) :
                \/ arg[i] \in {"-", "."}
                \/ \E j \in 1..26 : ascii_lowercase[j] = arg[i] )
          => netbios_ok = "False"

\* a name of 16 characters, all of them allowed, was refused
C18_Witness ==
    /\ netbios_ok = "False"
    /\ Len(arg) = 16
    /\ \A i \in 1..Len(arg) : arg[i] \in AZ09

\* the places of the '-' in str, and the k-th of the fields they separate
Dashes(str) == {i \in 1..Len(str) : str[i] = "-"}

Field(str, k) ==
    LET d == Dashes(str)
        nth(n) == IF n = 0 THEN 0
                  ELSE IF n > Cardinality(d) THEN Len(str) + 1
                  ELSE CHOOSE i \in d : Cardinality({j \in d : j <= i}) = n
    IN SubSeq(str, nth(k - 1) + 1, nth(k) - 1)

\* the number a decimal numeral denotes, as five base-256 digits, most
\* significant first
NumeralValue(num) ==
    LET muladd(n, a) ==
            LET c[i \in 1..6] ==
                    IF i = 6 THEN a ELSE (n[i] * 10 + c[i + 1]) \div 256
            IN [i \in 1..5 |-> (n[i] * 10 + c[i + 1]) % 256]
        v[k \in 0..Len(num)] ==
            IF k = 0 THEN [i \in 1..5 |-> 0]
            ELSE muladd(v[k - 1], (CHOOSE d \in 1..10 : digits[d] = num[k]) - 1)
    IN v[Len(num)]

\* C19: the string generated for a 12-byte draw is 'S-1-5-21-a-b-c', where
\* a, b, c are decimal numerals of the three 4-byte groups of the draw read
\* least significant byte first, each below 2^32; two draws that differ in a
\* byte give different strings.
C19_SidOfDraw ==
    sid_string # << >> =>
      /\ Cardinality(Dashes(sid_string)) = 6
      /\ Field(sid_string, 1) = << "S" >>
      /\ Field(sid_string, 2) = << "1" >>
      /\ Field(sid_string, 3) = << "5" >>
      /\ Field(sid_string, 4) = << "2", "1" >>
      /\ \A k \in 1..3 :
           LET f == Field(sid_string, 4 + k) IN
             /\ f # << >>
             /\ \A i \in 1..Len(f) : f[i] \in Digits
             /\ f[1] = "0" => Len(f) = 1
             /\ NumeralValue(f) = << 0, urandom[4 * k], urandom[4 * k - 1],
                                     urandom[4 * k - 2], urandom[4 * k - 3] >>
      /\ (prev_sid_string # << >> /\ prev_urandom # urandom) =>
             prev_sid_string # sid_string

\* two draws that differ were made, and the first group of the second,
\* with 255 as its last byte, came out as a numeral of ten digits
C19_Witness ==
    /\ sid_string # << >>
    /\ prev_sid_string # << >>
    /\ prev_urandom # urandom
    /\ urandom[4] = 255
    /\ Len(Field(sid_string, 5)) = 10

\* C28: make_netbios_name is idempotent and fixes every valid name: for every
\* string s, deriving a name from the name derived from s gives that name
\* again; when check_netbios_name(s) holds the name derived from s is s; and
\* the derived name fails check_netbios_name only when it is the empty string.
C28_MakeNetbiosNameIdempotent ==
    host_netbios_name # NoneStr =>
      /\ make_netbios_name(host_netbios_name) = host_netbios_name
      /\ check_netbios_name(arg) => host_netbios_name = arg
      /\ ~ check_netbios_name(host_netbios_name) => host_netbios_name = << >>

\* a name was derived from a valid name of 15 characters, digits among them
C28_Witness ==
    /\ check_netbios_name(arg)
    /\ Len(arg) = 15
    /\ arg[2] = "7"
    /\ host_netbios_name = arg

===========================================================================
